---- MODULE Spec2Model ----
(***************************************************************************)
(* Model of the wise BigQuery REST client (src/wise/bq/client.py):         *)
(* BQClient.run_sql with its poll loop (_poll_for_completion), its         *)
(* continuation loop (_fetch_remaining_rows) and the row formatter         *)
(* (_format_rows).                                                         *)
(*                                                                         *)
(* The server is the environment: every successful JSON response body is   *)
(* drawn from a small set of payloads.  Wire rows are numbered in the      *)
(* order the server sends them; wire row i has the cells 10*i+1, 10*i+2,   *)
(* so every cell of a run is distinct and a record can be traced back to   *)
(* the wire row it was built from.                                         *)
(*                                                                         *)
(* Further components, each with a specification of its own over the same  *)
(* variables (the components that take no part stay at rest):              *)
(*   SpecSave      save_metadata and the backup files (metadata/manager,   *)
(*                 datastore/files)                                        *)
(*   SpecRender    render_metadata                                         *)
(*   SpecAccounts  the accounts table under OAuth logins (auth/google,     *)
(*                 db/models)                                              *)
(*   SpecChat      the chat loop of start_session and its slash commands   *)
(*   SpecSnapshot  metadata_snapshot, called directly and from /init       *)
(*   SpecSample    BQClient.sample_rows                                    *)
(*   SpecList      BQClient.list_datasets / list_tables over _paginate     *)
(*   SpecLlm       LLMClient.generate and its retry policy (llm/base)      *)
(*   SpecRequest   _request_json, one HTTP exchange                        *)
(*   SpecSession   _create_authorized_session under BQClient() and         *)
(*                 list_projects                                           *)
(***************************************************************************)
EXTENDS Integers, Sequences, FiniteSets, TLC

\* ---------------------------------------------------------------- bounds
MaxPageRows == 2      \* wire rows in one response
MaxRowsTotal == 2     \* wire rows the server sends during one run_sql call
MaxContPages == 2     \* continuation pages the server serves in one call
MaxFmtRows == 2       \* rows of a _format_rows input
MaxFmtCells == 2      \* cells of one wire row of a _format_rows input
MaxFmtFields == 2     \* fields of a _format_rows schema

\* ------------------------------------------------------ program constants
MAX_POLL_ATTEMPTS == 30
POLL_INTERVAL_SEC == 1

\* ------------------------------------------------------------ wire values
None == "None"            \* JSON key absent / Python None, for string fields
NoneCell == 0             \* Python None as a cell value ("v" absent or null)

Truthy(v) == v \notin {None, ""}

\* Python `a or b`
Or(a, b) == IF Truthy(a) THEN a ELSE b

SchemaA == <<"a", "b">>
SchemaB == <<"c", "d", "e">>

\* the "schema" member of a response: absent (or {}), {"fields": []},
\* or a dict with a field list; a field is modelled by its name.
NoSchema == [truthy |-> FALSE, fields |-> <<>>]
SchemaVals ==
    { NoSchema,
      [truthy |-> TRUE, fields |-> <<>>],
      [truthy |-> TRUE, fields |-> SchemaA],
      [truthy |-> TRUE, fields |-> SchemaB] }

JobIdVals == {None, "", "job1"}
JobCompleteVals == {"true", "false", "absent"}
PageTokenVals == {None, "", "t1"}
NextPageTokenVals == {None, "t2"}
TotalRowsVals == {None, "abc", "3"}
StatusSchemaVals == SchemaVals \ {[truthy |-> TRUE, fields |-> <<>>]}
StatusTokenVals == {None, "t1"}
StatusTotalVals == {None, "3"}

WireRow(i) == <<10 * i + 1, 10 * i + 2>>

\* the wire rows from .. from+n-1
WireRows(from, n) == [k \in 1..n |-> WireRow(from + k - 1)]

\* response bodies whose members are drawn from the given sets; the wire
\* rows of the body are the next n rows after the `from - 1` already sent
Responses(from, J, C, S, N, P, Q, T) ==
    { [jobId |-> j, jobComplete |-> c, schema |-> s, rows |-> WireRows(from, n),
       pageToken |-> p, nextPageToken |-> q, totalRows |-> t] :
        j \in J, c \in C, s \in S, n \in N, p \in P, q \in Q, t \in T }

\* ---------------------------------------------------------- pure helpers
Max(S) == CHOOSE x \in S : \A y \in S : y <= x

\* variant: only the fallback member is read
NextPageToken_fallbackOnly(data) == data.nextPageToken

\* BQClient._next_page_token
NextPageToken(data) == Or(data.pageToken, data.nextPageToken)

\* BQClient._coerce_int; int() of the wire strings of TotalRowsVals
CoerceInt(value) ==
    IF value = None THEN 0
    ELSE IF value = "3" THEN 3
    ELSE 0

\* data.get("jobComplete", True)
JobComplete(data) == data.jobComplete # "false"

\* the body has a jobComplete member and its value is true
ExplicitlyComplete(body) == body.jobComplete = "true"

\* variant: the cell bound check is off by one
MapRow_offByOne(cells, names) ==
    LET named == {i \in 1..Len(names) : Truthy(names[i])}
        keys == {names[i] : i \in named}
    IN  [n \in keys |->
            LET idx == Max({i \in named : names[i] = n})
            IN  IF idx < Len(cells) THEN cells[idx] ELSE NoneCell]

\* one iteration of the row loop of _format_rows: cells is the row's "f"
\* array (each cell given by its "v"), names the schema's field names
MapRow(cells, names) ==
    LET named == {i \in 1..Len(names) : Truthy(names[i])}
        keys == {names[i] : i \in named}
    IN  [n \in keys |->
            LET idx == Max({i \in named : names[i] = n})
            IN  IF idx <= Len(cells) THEN cells[idx] ELSE NoneCell]

\* BQClient._format_rows
FormatRows(rows, schema_fields) ==
    IF rows = <<>> \/ schema_fields = <<>> THEN <<>>
    ELSE [k \in 1..Len(rows) |-> MapRow(rows[k], schema_fields)]

\* ------------------------------------------------- conditions of run_sql
\* variant: the empty-SQL check is missing
SqlEmpty_never(s) == FALSE

\* `if not sql:` (line 249)
SqlEmpty(s) == s = ""

\* variant: an empty job id passes
MissingJobId_noneOnly(j) == j = None

\* `if not job_id:` (line 262)
MissingJobId(j) == ~Truthy(j)

\* variant: dry_run is not looked at
FetchesRows_always(dry) == TRUE

\* `if not dry_run:` (line 269)
FetchesRows(dry) == ~dry

\* variant: the ceiling is checked one attempt late
PollExhausted_late(a) == a > MAX_POLL_ATTEMPTS

\* `if attempts >= self.MAX_POLL_ATTEMPTS:` (line 335)
PollExhausted(a) == a >= MAX_POLL_ATTEMPTS

\* variant: fetch_all is not looked at
ShouldFetchRemaining_anyMode(fa, tok) == Truthy(tok)

\* `if fetch_all and page_token:` (line 284)
ShouldFetchRemaining(fa, tok) == fa /\ Truthy(tok)

\* variant: a later schema replaces the captured one
CaptureSchema_latest(current, resp) ==
    IF resp.schema.truthy /\ resp.schema.fields # <<>>
    THEN resp.schema.fields
    ELSE current

\* lines 277-278 and 367-368: a response's schema is taken only while no
\* schema has been captured
CaptureSchema(current, resp) ==
    IF resp.schema.truthy /\ current = <<>>
    THEN (IF resp.schema.fields # <<>> THEN resp.schema.fields ELSE current)
    ELSE current

\* line 280: coerce_int(finished.get("totalRows") or total_rows)
FinishedTotal(resp, total) ==
    IF Truthy(resp.totalRows) THEN CoerceInt(resp.totalRows) ELSE total

\* -------------------------------------------------------------- state
VARIABLES
    pc,             \* position of the run_sql call
    sql, dry_run, fetch_all,            \* arguments of the call
    data,           \* submission response, while run_sql still reads it
    job_id, schema_fields, total_rows, rows, page_token, job_complete,
    attempts,       \* _poll_for_completion
    token, fetched, \* _fetch_remaining_rows: token, rows
    result,         \* the returned dict
    error,          \* the raised exception
    \* observations of the traffic
    nSubmit, nPoll, nCont,   \* requests issued, per kind
    slept,          \* seconds slept in time.sleep
    sent,           \* wire rows received so far
    pageOf,         \* first and last wire row of the submission page and of
                    \* the page of the poll that reported completion
    lastRespToken,  \* continuation token of the latest response
    contReqToken, contPrevToken,  \* token of the latest continuation request
                    \* and token of the response just before that request
    seenSchema,     \* first non-empty schema carried by any response
    takenSchema,    \* first non-empty schema carried by the submission, the
                    \* completing poll or a continuation page
    sawComplete,    \* some submission or poll response of the call carried
                    \* jobComplete = true in so many words
    fmtRows, fmtSchema, fmtOut, fmtDone     \* a _format_rows call

\* the metadata file store and a save_metadata call (metadata/manager.py,
\* datastore/files.py)
VARIABLES
    fsFiles,        \* content of every path of the project's data directory
    fsNow,          \* the UTC clock, in whole seconds
    svPc,           \* position of the save_metadata call
    svBackup,       \* argument backup
    svContent,      \* the text render_metadata returned
    svBackupPath,   \* local backup_path
    svResult,       \* the returned MetadataWriteResult
    svPrior         \* the store as the call found it

\* a render_metadata call on a snapshot and on a second snapshot of the same
\* contents (metadata/manager.py)
VARIABLES
    rdSnap, rdSnap2,    \* the two "datasets" mappings, in insertion order
    rdTime,             \* what _current_timestamp returns
    rdOut, rdOut2,      \* the lines of the two rendered documents
    rdDone

\* the accounts table and the latest OAuth login (db/models.py, auth/google.py)
VARIABLES
    acRows,         \* rows of accounts, in rowid order
    acLogins,       \* logins attempted so far
    acLast          \* the latest login: what it was given, what it returned
                    \* and the table it found

\* the chat loop of start_session (chat/session.py, chat/commands.py)
VARIABLES
    chPc,           \* position of start_session
    chSession,      \* account_id of the session row, 0 before create_session
    chSessions,     \* the sessions table
    chSessionId,    \* local session_id, 0 before create_session
    chFound,        \* the sessions table as start_session found it
    chMessages,     \* rows of messages of the session, in rowid order
    chRead,         \* lines read so far
    chLast          \* the latest line: what was read, what became of it and
                    \* the messages it found

\* a metadata_snapshot call (bq/client.py:451-482) and the /init handler
\* that makes one (chat/commands.py:50-135)
VARIABLES
    snPc,           \* position of the metadata_snapshot call
    snArg,          \* argument datasets: given or omitted, and the list
    snSampleN,      \* argument sample_n
    snIds,          \* dataset_ids
    snI,            \* index of dataset_id in dataset_ids
    snTables,       \* tables of the current dataset
    snJ,            \* index of table_id in tables
    snEntry,        \* dataset_entry["tables"], in insertion order
    snSnapshot,     \* snapshot["datasets"], in insertion order
    snResult,       \* the returned snapshot
    snError,        \* the raised exception: the call that failed, and how
    snCalls,        \* client calls made, per method
    snListed,       \* what list_tables returned, per dataset
    snFailed,       \* the first client call the server failed
    inPc,           \* position of _init
    inDatasetIds,   \* dataset_ids of _init
    inReply,        \* the returned display string: the step that wrote it
    inFound,        \* the metadata store as _init found it
    inClients       \* BQClient(...) calls made by _init itself

\* a BQClient.sample_rows call (bq/client.py:227-237)
VARIABLES
    smPc,           \* position of the call
    smMax,          \* argument max_results
    smData,         \* the response body
    smResult,       \* the returned list
    smRequests      \* requests issued

\* a BQClient.list_datasets or list_tables call (bq/client.py:187-215,
\* 319-330)
VARIABLES
    pgPc,           \* position of the call
    pgKind,         \* "datasets" or "tables"
    pgDataset,      \* argument dataset_id of list_tables
    pgToken,        \* token of _paginate
    pgIds,          \* dataset_ids / table_ids
    pgRequests,     \* requests issued
    pgReqToken,     \* pageToken of the latest request
    pgPrevToken,    \* continuation token of the response before it
    pgLastToken,    \* continuation token of the latest response
    pgWithToken,    \* responses so far that carried a continuation token
    pgPresent       \* entries so far that carried an identifier

\* an LLMClient.generate call (llm/base.py:120-168)
VARIABLES
    llmPc,          \* position of the call
    llmPrompt,      \* argument prompt
    llmMax,         \* RetryConfig.max_attempts
    llmScript,      \* what the backend does on its k-th call
    llmAttempt,     \* loop variable attempt
    llmDelay,       \* local delay, in seconds
    llmSlept,       \* seconds of back-off asked for so far, jitter aside
    llmCalls,       \* backend calls made
    llmResult,      \* the returned text
    llmError        \* the raised exception

\* one _request_json call (bq/client.py:42-67)
VARIABLES
    rqPc,           \* position of the call
    rqMethod,       \* argument method
    rqResponse,     \* what session.request returned
    rqResult,       \* the returned dict
    rqError         \* the raised exception

\* one _create_authorized_session call, made by BQClient(...) or by
\* list_projects (bq/client.py:137-150, 161-181, 422-444)
VARIABLES
    auPc,           \* position of the call
    auCaller,       \* "BQClient" or "list_projects"
    auProjectId,    \* argument project_id of BQClient
    auAccountId,    \* argument account_id
    auSecrets,      \* state of the OAuth client secrets file
    auAccount,      \* local account
    auError,        \* the raised exception
    auRefreshes,    \* token refreshes asked of the identity provider
    auRequests      \* warehouse requests issued

runVars == <<pc, sql, dry_run, fetch_all, data, job_id, schema_fields,
             total_rows, rows, page_token, job_complete, attempts, token,
             fetched, result, error, nSubmit, nPoll, nCont, slept, sent,
             pageOf, lastRespToken, contReqToken, contPrevToken, seenSchema,
             takenSchema, sawComplete>>
fmtVars == <<fmtRows, fmtSchema, fmtOut, fmtDone>>
clientVars == <<runVars, fmtVars>>
svVars == <<fsFiles, fsNow, svPc, svBackup, svContent, svBackupPath, svResult,
            svPrior>>
rdVars == <<rdSnap, rdSnap2, rdTime, rdOut, rdOut2, rdDone>>
acVars == <<acRows, acLogins, acLast>>
chVars == <<chPc, chSession, chSessions, chSessionId, chFound, chMessages,
            chRead, chLast>>
snVars == <<snPc, snArg, snSampleN, snIds, snI, snTables, snJ, snEntry,
            snSnapshot, snResult, snError, snCalls, snListed, snFailed>>
inVars == <<inPc, inDatasetIds, inReply, inFound, inClients>>
smVars == <<smPc, smMax, smData, smResult, smRequests>>
pgVars == <<pgPc, pgKind, pgDataset, pgToken, pgIds, pgRequests, pgReqToken,
            pgPrevToken, pgLastToken, pgWithToken, pgPresent>>
llmVars == <<llmPc, llmPrompt, llmMax, llmScript, llmAttempt, llmDelay,
             llmSlept, llmCalls, llmResult, llmError>>
rqVars == <<rqPc, rqMethod, rqResponse, rqResult, rqError>>
auVars == <<auPc, auCaller, auProjectId, auAccountId, auSecrets, auAccount,
            auError, auRefreshes, auRequests>>
lastVars == <<rqVars, auVars>>
laterVars == <<smVars, pgVars, llmVars, lastVars>>
restVars == <<svVars, rdVars, acVars, chVars, snVars, inVars, laterVars>>
\* what the actions of one component leave alone
saveRest == <<clientVars, rdVars, acVars, chVars, snVars, inVars,
             laterVars>>
renderRest == <<clientVars, svVars, acVars, chVars, snVars, inVars,
               laterVars>>
accountsRest == <<clientVars, svVars, rdVars, chVars, snVars, inVars,
                 laterVars>>
chatRest == <<clientVars, rdVars, snVars, inVars, laterVars>>
snapshotRest == <<clientVars, svVars, rdVars, acVars, chVars, laterVars>>
initRest == <<clientVars, rdVars, chVars, laterVars>>
sampleRest == <<clientVars, svVars, rdVars, acVars, chVars, snVars, inVars,
               pgVars, llmVars, lastVars>>
listRest == <<clientVars, svVars, rdVars, acVars, chVars, snVars, inVars,
             smVars, llmVars, lastVars>>
llmRest == <<clientVars, svVars, rdVars, acVars, chVars, snVars, inVars,
            smVars, pgVars, lastVars>>
requestRest == <<clientVars, svVars, rdVars, acVars, chVars, snVars, inVars,
                smVars, pgVars, llmVars, auVars>>
sessionRest == <<clientVars, svVars, rdVars, chVars, snVars, inVars,
                smVars, pgVars, llmVars, rqVars>>
vars == <<runVars, fmtVars, restVars>>

NoResponse ==
    [jobId |-> None, jobComplete |-> "absent", schema |-> NoSchema,
     rows |-> <<>>, pageToken |-> None, nextPageToken |-> None,
     totalRows |-> None]
NoResult == [schema |-> <<>>, rows |-> <<>>, totalRows |-> 0, jobId |-> None]
NoError == [kind |-> "none", payload |-> NoResponse]
NoPages == [subFrom |-> 1, subTo |-> 0, finFrom |-> 1, finTo |-> 0]

\* what the traffic observers record of a response
RespToken(resp) ==
    IF resp.pageToken # None /\ resp.pageToken # "" THEN resp.pageToken
    ELSE resp.nextPageToken
FirstSchema(seen, resp) ==
    IF seen = <<>> THEN resp.schema.fields ELSE seen

RunInit ==
    /\ pc = "start"
    /\ sql = "" /\ dry_run = FALSE /\ fetch_all = FALSE
    /\ data = NoResponse
    /\ job_id = None /\ schema_fields = <<>> /\ total_rows = 0
    /\ rows = <<>> /\ page_token = None /\ job_complete = TRUE
    /\ attempts = 0 /\ token = None /\ fetched = <<>>
    /\ result = NoResult /\ error = NoError
    /\ nSubmit = 0 /\ nPoll = 0 /\ nCont = 0 /\ slept = 0 /\ sent = 0
    /\ pageOf = NoPages
    /\ lastRespToken = None /\ contReqToken = None /\ contPrevToken = None
    /\ seenSchema = <<>> /\ takenSchema = <<>>
    /\ sawComplete = FALSE

FmtIdle ==
    /\ fmtRows = <<>> /\ fmtSchema = <<>> /\ fmtOut = <<>> /\ fmtDone = FALSE

\* ---------------------------------------- the metadata store, at rest
MaxClock == 2         \* seconds the clock can show
MaxContent == 2       \* distinct texts a file can hold

NoFile == 0           \* the path does not exist
NoPath == <<"", 0>>   \* Python None, for a path

\* datastore.files.metadata_path: <data dir>/<project_id>/metadata.md
MetadataPath == <<"metadata.md", 0>>
\* source.with_name(f"{source.name}.bak.{ts}"), ts of second resolution
BackupPathOf(ts) == <<"metadata.md.bak", ts>>
BackupPaths == {BackupPathOf(ts) : ts \in 1..MaxClock}
FsPaths == {MetadataPath} \cup BackupPaths
EmptyStore == [p \in FsPaths |-> NoFile]
NoWriteResult == [path |-> NoPath, backup_path |-> NoPath]

SaveIdle ==
    /\ fsFiles = EmptyStore /\ fsNow = 1
    /\ svPc = "idle" /\ svBackup = TRUE /\ svContent = NoFile
    /\ svBackupPath = NoPath /\ svResult = NoWriteResult
    /\ svPrior = EmptyStore

RenderIdle ==
    /\ rdSnap = <<>> /\ rdSnap2 = <<>> /\ rdTime = 1
    /\ rdOut = <<>> /\ rdOut2 = <<>> /\ rdDone = FALSE

NoLogin == [outcome |-> "none", email |-> "", token |-> None, id |-> 0,
            before |-> <<>>]

AccountsIdle ==
    /\ acRows = <<>> /\ acLogins = 0 /\ acLast = NoLogin

NoFailure == <<"", "">>
NoLine == [line |-> <<>>, outcome |-> "none", handler |-> "none",
           failure |-> NoFailure, account |-> 0, before |-> <<>>]

ChatIdle ==
    /\ chPc = "idle" /\ chSession = 0 /\ chMessages = <<>> /\ chRead = 0
    /\ chSessions = <<>> /\ chSessionId = 0 /\ chFound = <<>>
    /\ chLast = NoLine

NoDatasets == [given |-> FALSE, ids |-> <<>>]
NoSnapshot == [returned |-> FALSE, datasets |-> <<>>]
NoCalls == [list_datasets |-> 0, list_tables |-> 0, get_table_schema |-> 0,
            sample_rows |-> 0]

SnapshotIdle ==
    /\ snPc = "idle" /\ snArg = NoDatasets /\ snSampleN = 0
    /\ snIds = <<>> /\ snI = 1 /\ snTables = <<>> /\ snJ = 1
    /\ snEntry = <<>> /\ snSnapshot = <<>> /\ snResult = NoSnapshot
    /\ snError = NoFailure /\ snCalls = NoCalls /\ snListed = <<>>
    /\ snFailed = NoFailure
    /\ inPc = "idle" /\ inDatasetIds = <<>> /\ inReply = NoFailure
    /\ inFound = EmptyStore /\ inClients = 0

SampleIdle ==
    /\ smPc = "idle" /\ smMax = 0 /\ smData = NoResponse /\ smResult = <<>>
    /\ smRequests = 0

ListIdle ==
    /\ pgPc = "idle" /\ pgKind = "datasets" /\ pgDataset = ""
    /\ pgToken = None /\ pgIds = <<>> /\ pgRequests = 0
    /\ pgReqToken = None /\ pgPrevToken = None /\ pgLastToken = None
    /\ pgWithToken = 0 /\ pgPresent = 0

LlmIdle ==
    /\ llmPc = "idle" /\ llmPrompt = "" /\ llmMax = 0 /\ llmScript = <<>>
    /\ llmAttempt = 0 /\ llmDelay = 0 /\ llmSlept = 0 /\ llmCalls = 0
    /\ llmResult = None /\ llmError = None

NoStatusCode == 0     \* status_code = None of a BigQueryClientError
NoHttpResponse == [status_code |-> NoStatusCode, content |-> ""]
NoReturn == [returned |-> FALSE, value |-> <<>>]
NoRaise == [class |-> "", status_code |-> NoStatusCode, payload |-> <<>>]
NoAccountId == 0      \* account_id = None
NoAccount ==
    [id |-> NoAccountId, email |-> "", refresh_token |-> None,
     created_at |-> 0]

RequestIdle ==
    /\ rqPc = "idle" /\ rqMethod = "" /\ rqResponse = NoHttpResponse
    /\ rqResult = NoReturn /\ rqError = NoRaise

SessionIdle ==
    /\ auPc = "idle" /\ auCaller = "" /\ auProjectId = ""
    /\ auAccountId = NoAccountId /\ auSecrets = "" /\ auAccount = NoAccount
    /\ auError = NoFailure /\ auRefreshes = 0 /\ auRequests = 0

\* the components that take no part in a specification stay at rest
LastIdle == RequestIdle /\ SessionIdle
LaterIdle == SampleIdle /\ ListIdle /\ LlmIdle /\ LastIdle
RestIdle ==
    /\ SaveIdle /\ RenderIdle /\ AccountsIdle /\ ChatIdle /\ SnapshotIdle
    /\ LaterIdle
SaveRestIdle ==
    RenderIdle /\ AccountsIdle /\ ChatIdle /\ SnapshotIdle /\ LaterIdle
RenderRestIdle ==
    SaveIdle /\ AccountsIdle /\ ChatIdle /\ SnapshotIdle /\ LaterIdle
AccountsRestIdle ==
    SaveIdle /\ RenderIdle /\ ChatIdle /\ SnapshotIdle /\ LaterIdle
ChatRestIdle == RenderIdle /\ SnapshotIdle /\ LaterIdle
SnapshotRestIdle == RenderIdle /\ ChatIdle /\ LaterIdle
EarlierIdle ==
    SaveIdle /\ RenderIdle /\ AccountsIdle /\ ChatIdle /\ SnapshotIdle
SampleRestIdle == EarlierIdle /\ ListIdle /\ LlmIdle /\ LastIdle
ListRestIdle == EarlierIdle /\ SampleIdle /\ LlmIdle /\ LastIdle
LlmRestIdle == EarlierIdle /\ SampleIdle /\ ListIdle /\ LastIdle
RequestRestIdle ==
    EarlierIdle /\ SampleIdle /\ ListIdle /\ LlmIdle /\ SessionIdle
SessionRestIdle ==
    /\ SaveIdle /\ RenderIdle /\ ChatIdle /\ SnapshotIdle
    /\ SampleIdle /\ ListIdle /\ LlmIdle /\ RequestIdle

Init == RunInit /\ FmtIdle /\ RestIdle

\* the dict built at lines 293-298
Result(sf, rs, total, jid) ==
    [schema |-> sf, rows |-> rs, totalRows |-> total, jobId |-> jid]

Min(a, b) == IF a <= b THEN a ELSE b

\* bodies the server may answer the submission with
SubmitResponses ==
    Responses(1, JobIdVals, JobCompleteVals, SchemaVals,
              0..Min(MaxPageRows, MaxRowsTotal), PageTokenVals,
              NextPageTokenVals, TotalRowsVals)

\* bodies of job-status responses: they carry no job reference, and the
\* server sends at most MaxRowsTotal wire rows in one call.  Members that
\* neither the client nor the observers read are left out: the tokens and
\* the total of a response reporting incompletion (PollResponses), the
\* completion flag and the total of a continuation page (PageResponses).
StatusResponses(C, P, Q, T) ==
    Responses(sent + 1, {None}, C, StatusSchemaVals,
              0..Min(MaxPageRows, MaxRowsTotal - sent), P, Q, T)
PollResponses ==
    StatusResponses({"false"}, {None}, {None}, {None})
        \cup StatusResponses({"true", "absent"}, StatusTokenVals,
                             NextPageTokenVals, StatusTotalVals)
PageResponses ==
    StatusResponses({"true"}, StatusTokenVals, NextPageTokenVals, {None})

\* run_sql is called: lines 239-250
RunSqlCall ==
    /\ pc = "start"
    /\ \E s \in {"", "SELECT 1"}, dry \in BOOLEAN, fa \in BOOLEAN :
        /\ sql' = s /\ dry_run' = dry /\ fetch_all' = fa
        /\ IF SqlEmpty(s)
           THEN /\ pc' = "failed"
                /\ error' = [kind |-> "ValueError", payload |-> NoResponse]
           ELSE /\ pc' = "submit"
                /\ UNCHANGED error
    /\ UNCHANGED <<data, job_id, schema_fields, total_rows, rows, page_token,
                   job_complete, attempts, token, fetched, result, nSubmit,
                   nPoll, nCont, slept, sent, pageOf, lastRespToken,
                   contReqToken, contPrevToken, seenSchema, takenSchema>>
    /\ UNCHANGED sawComplete
    /\ UNCHANGED <<fmtVars, restVars>>

\* the submission request and what run_sql does with its response:
\* lines 251-272, and lines 293-299 when dry_run is set
RunSqlSubmit ==
    /\ pc = "submit"
    /\ \E resp \in SubmitResponses :
        /\ nSubmit' = nSubmit + 1
        /\ sent' = Len(resp.rows)
        /\ lastRespToken' = RespToken(resp)
        /\ seenSchema' = FirstSchema(seenSchema, resp)
        /\ job_id' = resp.jobId
        /\ sawComplete' = ExplicitlyComplete(resp)
        /\ IF MissingJobId(resp.jobId)
           THEN /\ pc' = "failed"
                /\ error' = [kind |-> "BigQueryClientError.no_job_id",
                             payload |-> resp]
                /\ data' = resp
                /\ UNCHANGED <<schema_fields, total_rows, rows, page_token,
                               job_complete, result, pageOf, takenSchema>>
           ELSE /\ schema_fields' = CaptureSchema(<<>>, resp)
                /\ total_rows' = CoerceInt(resp.totalRows)
                /\ takenSchema' = FirstSchema(takenSchema, resp)
                /\ UNCHANGED error
                /\ IF FetchesRows(dry_run)
                   THEN /\ rows' = FormatRows(resp.rows, schema_fields')
                        /\ page_token' = NextPageToken(resp)
                        /\ job_complete' = JobComplete(resp)
                        /\ pageOf' = [pageOf EXCEPT !.subTo = Len(resp.rows),
                                        !.finFrom = Len(resp.rows) + 1,
                                        !.finTo = Len(resp.rows)]
                        /\ pc' = IF job_complete' THEN "completed"
                                 ELSE "poll_top"
                        /\ data' = NoResponse
                        /\ UNCHANGED result
                   ELSE /\ rows' = <<>>
                        /\ result' = Result(schema_fields', rows',
                                            total_rows', job_id')
                        /\ pc' = "done"
                        /\ data' = resp
                        /\ UNCHANGED <<page_token, job_complete, pageOf>>
    /\ UNCHANGED <<sql, dry_run, fetch_all, attempts, token, fetched, nPoll,
                   nCont, slept, contReqToken, contPrevToken>>
    /\ UNCHANGED <<fmtVars, restVars>>

\* _poll_for_completion, lines 335-336: the attempt ceiling is reached
PollTimeout ==
    /\ pc = "poll_top"
    /\ PollExhausted(attempts)
    /\ pc' = "failed"
    /\ error' = [kind |-> "BigQueryClientError.timeout", payload |-> NoResponse]
    /\ UNCHANGED <<sql, dry_run, fetch_all, data, job_id, schema_fields,
                   total_rows, rows, page_token, job_complete, attempts, token,
                   fetched, result, nSubmit, nPoll, nCont, slept, sent, pageOf,
                   lastRespToken, contReqToken, contPrevToken, seenSchema,
                   takenSchema>>
    /\ UNCHANGED sawComplete
    /\ UNCHANGED <<fmtVars, restVars>>

\* _poll_for_completion, line 337: time.sleep(POLL_INTERVAL_SEC)
PollSleep ==
    /\ pc = "poll_top"
    /\ ~PollExhausted(attempts)
    /\ slept' = slept + POLL_INTERVAL_SEC
    /\ pc' = "poll_req"
    /\ UNCHANGED <<sql, dry_run, fetch_all, data, job_id, schema_fields,
                   total_rows, rows, page_token, job_complete, attempts, token,
                   fetched, result, error, nSubmit, nPoll, nCont, sent, pageOf,
                   lastRespToken, contReqToken, contPrevToken, seenSchema,
                   takenSchema>>
    /\ UNCHANGED sawComplete
    /\ UNCHANGED <<fmtVars, restVars>>

\* _poll_for_completion, lines 338-345, and on completion lines 277-282
PollRequest ==
    /\ pc = "poll_req"
    /\ \E resp \in PollResponses :
        /\ nPoll' = nPoll + 1
        /\ sent' = sent + Len(resp.rows)
        /\ lastRespToken' = RespToken(resp)
        /\ seenSchema' = FirstSchema(seenSchema, resp)
        /\ sawComplete' = (sawComplete \/ ExplicitlyComplete(resp))
        /\ IF JobComplete(resp)
           THEN /\ schema_fields' = CaptureSchema(schema_fields, resp)
                /\ rows' = rows \o FormatRows(resp.rows, schema_fields')
                /\ total_rows' = FinishedTotal(resp, total_rows)
                /\ page_token' = NextPageToken(resp)
                /\ job_complete' = JobComplete(resp)
                /\ takenSchema' = FirstSchema(takenSchema, resp)
                /\ pageOf' = [pageOf EXCEPT !.finFrom = sent + 1,
                                            !.finTo = sent + Len(resp.rows)]
                /\ pc' = "completed"
                /\ UNCHANGED attempts
           ELSE /\ attempts' = attempts + 1
                /\ pc' = "poll_top"
                /\ UNCHANGED <<schema_fields, rows, total_rows, page_token,
                               job_complete, takenSchema, pageOf>>
    /\ UNCHANGED <<sql, dry_run, fetch_all, data, job_id, token, fetched,
                   result, error, nSubmit, nCont, slept, contReqToken,
                   contPrevToken>>
    /\ UNCHANGED <<fmtVars, restVars>>

\* run_sql, line 284 and either the call of _fetch_remaining_rows
\* (lines 355-356) or the return (lines 293-299)
AfterCompletion ==
    /\ pc = "completed"
    /\ IF ShouldFetchRemaining(fetch_all, page_token)
       THEN /\ token' = page_token
            /\ fetched' = <<>>
            /\ pc' = "fetch"
            /\ UNCHANGED result
       ELSE /\ result' = Result(schema_fields, rows, total_rows, job_id)
            /\ pc' = "done"
            /\ UNCHANGED <<token, fetched>>
    /\ UNCHANGED <<sql, dry_run, fetch_all, data, job_id, schema_fields,
                   total_rows, rows, page_token, job_complete, attempts, error,
                   nSubmit, nPoll, nCont, slept, sent, pageOf, lastRespToken,
                   contReqToken, contPrevToken, seenSchema, takenSchema>>
    /\ UNCHANGED sawComplete
    /\ UNCHANGED <<fmtVars, restVars>>

\* _fetch_remaining_rows, one iteration of the loop: lines 357-370.
\* The server ends the result after MaxContPages continuation pages.
FetchRequest ==
    /\ pc = "fetch"
    /\ Truthy(token)
    /\ \E resp \in PageResponses :
        /\ (nCont + 1 >= MaxContPages => ~Truthy(RespToken(resp)))
        /\ nCont' = nCont + 1
        /\ contReqToken' = token
        /\ contPrevToken' = lastRespToken
        /\ sent' = sent + Len(resp.rows)
        /\ lastRespToken' = RespToken(resp)
        /\ seenSchema' = FirstSchema(seenSchema, resp)
        /\ takenSchema' = FirstSchema(takenSchema, resp)
        /\ schema_fields' = CaptureSchema(schema_fields, resp)
        /\ fetched' = fetched \o FormatRows(resp.rows, schema_fields')
        /\ token' = NextPageToken(resp)
    /\ UNCHANGED <<pc, sql, dry_run, fetch_all, data, job_id, total_rows, rows,
                   page_token, job_complete, attempts, result, error, nSubmit,
                   nPoll, slept, pageOf>>
    /\ UNCHANGED sawComplete
    /\ UNCHANGED <<fmtVars, restVars>>

\* _fetch_remaining_rows returns (line 371); run_sql extends rows and
\* returns (lines 285-299)
FetchReturn ==
    /\ pc = "fetch"
    /\ ~Truthy(token)
    /\ rows' = rows \o fetched
    /\ result' = Result(schema_fields, rows', total_rows, job_id)
    /\ pc' = "done"
    /\ UNCHANGED <<sql, dry_run, fetch_all, data, job_id, schema_fields,
                   total_rows, page_token, job_complete, attempts, token,
                   fetched, error, nSubmit, nPoll, nCont, slept, sent, pageOf,
                   lastRespToken, contReqToken, contPrevToken, seenSchema,
                   takenSchema>>
    /\ UNCHANGED sawComplete
    /\ UNCHANGED <<fmtVars, restVars>>

Next ==
    \/ RunSqlCall
    \/ RunSqlSubmit
    \/ PollTimeout
    \/ PollSleep
    \/ PollRequest
    \/ AfterCompletion
    \/ FetchRequest
    \/ FetchReturn

Spec == Init /\ [][Next]_vars

\* ------------------------------------------------ _format_rows on its own
FmtCells == {NoneCell, 1, 2}
FmtNames == {"", "a", "b"}

SeqsUpTo(S, n) == UNION {[1..k -> S] : k \in 0..n}

FmtInit ==
    /\ RunInit
    /\ RestIdle
    /\ fmtRows \in SeqsUpTo(SeqsUpTo(FmtCells, MaxFmtCells), MaxFmtRows)
    /\ fmtSchema \in SeqsUpTo(FmtNames, MaxFmtFields)
    /\ fmtOut = <<>>
    /\ fmtDone = FALSE

\* a call of _format_rows(fmtRows, fmtSchema)
FormatCall ==
    /\ ~fmtDone
    /\ fmtOut' = FormatRows(fmtRows, fmtSchema)
    /\ fmtDone' = TRUE
    /\ UNCHANGED <<fmtRows, fmtSchema>>
    /\ UNCHANGED <<runVars, restVars>>

NextFmt == FormatCall

SpecFmt == FmtInit /\ [][NextFmt]_vars

\* ------------------------------------------------------------ properties
\* the wire row a record was built from (cells of wire row i are 10*i+j)
RowId(rec) == Max({rec[n] : n \in DOMAIN rec}) \div 10
RowIds(rs) == [k \in 1..Len(rs) |-> RowId(rs[k])]
IdsUpTo(n) == [k \in 1..n |-> k]
Range(f) == {f[k] : k \in DOMAIN f}

Returned == pc = "done"
TimedOut == pc = "failed" /\ error.kind = "BigQueryClientError.timeout"
NoJobId == pc = "failed" /\ error.kind = "BigQueryClientError.no_job_id"
SubPage == pageOf.subFrom .. pageOf.subTo
FinPage == pageOf.finFrom .. pageOf.finTo

\* C1: when the submission and every poll report jobComplete = false,
\* run_sql sends exactly MAX_POLL_ATTEMPTS job-status requests, one sleep of
\* POLL_INTERVAL_SEC before each, then raises the timeout error: there is
\* no further request and no result.
C1_PollTimeout ==
    /\ nPoll <= MAX_POLL_ATTEMPTS
    /\ slept = POLL_INTERVAL_SEC * (IF pc = "poll_req" THEN nPoll + 1 ELSE nPoll)
    /\ (pc \in {"poll_top", "poll_req"} => nPoll = attempts)
    /\ (pc = "poll_req" => attempts < MAX_POLL_ATTEMPTS)
    /\ (TimedOut => /\ nPoll = MAX_POLL_ATTEMPTS
                    /\ slept = MAX_POLL_ATTEMPTS * POLL_INTERVAL_SEC
                    /\ nCont = 0
                    /\ result = NoResult)
    /\ (nPoll = MAX_POLL_ATTEMPTS /\ ~job_complete
            => pc \in {"poll_top", "failed"} /\ result = NoResult)

C1_Witness == TimedOut /\ nPoll = MAX_POLL_ATTEMPTS /\ nSubmit = 1

\* C2: when the submission reports incompletion and poll k is the first to
\* report completion, run_sql with fetch_all returns the rows of every page
\* it received (submission, polls, continuation pages), in order, none
\* dropped and none duplicated.  Stated for the calls that return a
\* schema, since without one no record can be built.
C2_AllPagesReturned ==
    (Returned /\ ~dry_run /\ fetch_all /\ nPoll >= 1 /\ result.schema # <<>>)
        => RowIds(result.rows) = IdsUpTo(sent)

\* C3: a dry run sends the submission and nothing else, whatever the
\* completion flag or token of the response, and returns the response's
\* schema, no rows, the reported total and the job id.
C3_DryRun ==
    dry_run =>
        /\ nPoll = 0 /\ nCont = 0 /\ slept = 0 /\ nSubmit <= 1
        /\ (Returned =>
                /\ nSubmit = 1
                /\ result.schema = data.schema.fields
                /\ result.rows = <<>>
                /\ result.totalRows = (IF data.totalRows = "3" THEN 3 ELSE 0)
                /\ result.jobId = data.jobId)

C3_Witness ==
    /\ Returned /\ dry_run
    /\ data.jobComplete = "false" /\ data.pageToken = "t1"
    /\ data.rows # <<>> /\ result.schema = SchemaA /\ result.totalRows = 3

\* C4: run_sql with an empty SQL string raises the invalid-argument error
\* and sends no request.
C4_EmptySql ==
    (pc # "start" /\ sql = "")
        => /\ pc = "failed" /\ error.kind = "ValueError"
           /\ nSubmit = 0 /\ nPoll = 0 /\ nCont = 0

C4_Witness == pc = "failed" /\ error.kind = "ValueError" /\ sql = ""

\* C5: with fetch_all, continuation requests go on until a response carries
\* no token, and each carries the token of the response just before it.
C5_TokenChain ==
    /\ (nCont > 0 => Truthy(contReqToken) /\ contReqToken = contPrevToken)
    /\ (pc = "fetch" /\ nCont = 0 => token = lastRespToken)
    /\ (Returned /\ ~dry_run /\ fetch_all => ~Truthy(lastRespToken))

C5_Witness ==
    /\ Returned /\ fetch_all /\ nCont >= 2
    /\ contReqToken = "t1" /\ page_token = "t2"

\* C6 (as stated): with fetch_all false there is no continuation request
\* and the result holds rows of the first completed page only.
C6_FirstPageOnly ==
    (Returned /\ ~dry_run /\ ~fetch_all)
        => /\ nCont = 0
           /\ Range(RowIds(result.rows))
                \subseteq (IF nPoll = 0 THEN SubPage ELSE FinPage)

\* C6 (amended): with fetch_all false there is no continuation request even
\* when the completed page carries a token; the result holds rows of the
\* submission response and of the poll response that reported completion
\* only, each at most once and in that order, and has no token member.
C6_NoContinuation ==
    (Returned /\ ~dry_run /\ ~fetch_all)
        => /\ nCont = 0
           /\ Range(RowIds(result.rows)) \subseteq (SubPage \cup FinPage)
           /\ \A i, j \in 1..Len(result.rows) :
                i < j => RowId(result.rows[i]) < RowId(result.rows[j])
           /\ (nPoll = 0 => Range(RowIds(result.rows)) \subseteq SubPage)
           /\ DOMAIN result = {"schema", "rows", "totalRows", "jobId"}

C6_Witness ==
    /\ Returned /\ ~dry_run /\ ~fetch_all
    /\ Truthy(page_token) /\ nPoll >= 1
    /\ RowIds(result.rows) = <<1, 2>> /\ SubPage = {1} /\ FinPage = {2}

\* C7: a submission response without a job id makes run_sql raise the
\* invalid-response error carrying the response, with no poll and no
\* continuation request.
C7_MissingJobId ==
    (nSubmit >= 1 /\ job_id \in {None, ""})
        => /\ NoJobId
           /\ error.payload = data
           /\ nPoll = 0 /\ nCont = 0 /\ slept = 0
           /\ result = NoResult

C7_Witness == NoJobId /\ job_id = "" /\ error.payload.rows # <<>>

\* C8: when the submission already reports completion and fetch_all is set,
\* the result has one record per wire row of the submission page and of each
\* continuation page, in page order, also when the schema first arrives on a
\* later page.  Stated for the calls that return a schema.
C8_SyncAllRows ==
    (Returned /\ ~dry_run /\ fetch_all /\ nPoll = 0 /\ result.schema # <<>>)
        => RowIds(result.rows) = IdsUpTo(sent)

\* C9 (as stated): the returned schema is the first non-empty schema among
\* all responses, polls reporting incompletion included.
C9_FirstOfAllResponses ==
    Returned => result.schema = seenSchema

\* C9 (amended): the returned schema is the first non-empty schema among the
\* submission response, the poll response that reported completion and the
\* continuation pages; once captured it is never replaced.
C9_FirstTakenSchema ==
    /\ (pc \notin {"start", "submit"} /\ ~NoJobId
            => schema_fields = takenSchema)
    /\ (Returned => result.schema = takenSchema)

C9_Witness ==
    /\ Returned /\ nPoll >= 2 /\ nCont >= 1
    /\ seenSchema = SchemaB /\ result.schema = SchemaA

\* C10 (as stated): for non-empty rows and schema, _format_rows gives one
\* record per row, in order, each with len(schema) keys, the key of field i
\* holding cell i of the row, or null when the row has no cell i.
FmtCellAt(k, i) ==
    IF i <= Len(fmtRows[k]) THEN fmtRows[k][i] ELSE NoneCell
C10_KeyPerField ==
    (fmtDone /\ fmtRows # <<>> /\ fmtSchema # <<>>)
        => /\ Len(fmtOut) = Len(fmtRows)
           /\ \A k \in 1..Len(fmtRows) :
                /\ Cardinality(DOMAIN fmtOut[k]) = Len(fmtSchema)
                /\ \A i \in 1..Len(fmtSchema) :
                        fmtOut[k][fmtSchema[i]] = FmtCellAt(k, i)

\* C10 (amended): the same, for schemas whose field names are non-empty and
\* pairwise distinct.
FmtNamesDistinct ==
    /\ \A i \in 1..Len(fmtSchema) : fmtSchema[i] # ""
    /\ \A i, j \in 1..Len(fmtSchema) : fmtSchema[i] = fmtSchema[j] => i = j
C10_KeyPerNamedField ==
    (fmtDone /\ fmtRows # <<>> /\ fmtSchema # <<>> /\ FmtNamesDistinct)
        => /\ Len(fmtOut) = Len(fmtRows)
           /\ \A k \in 1..Len(fmtRows) :
                /\ Cardinality(DOMAIN fmtOut[k]) = Len(fmtSchema)
                /\ \A i \in 1..Len(fmtSchema) :
                        fmtOut[k][fmtSchema[i]] = FmtCellAt(k, i)

C10_Witness ==
    /\ fmtDone /\ fmtSchema = <<"b", "a">>
    /\ fmtRows = <<<<1, 2>>, <<2>>>>
    /\ fmtOut[1]["b"] = 1 /\ fmtOut[1]["a"] = 2
    /\ fmtOut[2]["b"] = 2 /\ fmtOut[2]["a"] = NoneCell

\* ------------------------------------------------------- save_metadata
\* variant: no backup is ever taken
ShouldBackup_never(backup, files) == FALSE

\* manager.py:168, `backup and path.exists()`
ShouldBackup(backup, files) == backup /\ files[MetadataPath] # NoFile

\* files.py:56-65 create_backup: shutil.copy2(source, backup), which replaces
\* a file already standing at the backup path
CreateBackup(files, ts) ==
    [files EXCEPT ![BackupPathOf(ts)] = files[MetadataPath]]

\* files.py:43-49 write_text
WriteText(files, content) == [files EXCEPT ![MetadataPath] = content]

Contents == 1..MaxContent

SaveInit ==
    /\ RunInit /\ FmtIdle /\ SaveRestIdle
    /\ fsFiles \in {f \in [FsPaths -> {NoFile} \cup Contents] :
                        \A p \in BackupPaths : f[p] = NoFile}
    /\ fsNow = 1
    /\ svPc = "idle" /\ svBackup = TRUE /\ svContent = NoFile
    /\ svBackupPath = NoPath /\ svResult = NoWriteResult
    /\ svPrior = fsFiles

\* the clock moves on between any two steps
Tick ==
    /\ fsNow < MaxClock
    /\ fsNow' = fsNow + 1
    /\ UNCHANGED <<fsFiles, svPc, svBackup, svContent, svBackupPath, svResult,
                   svPrior>>
    /\ UNCHANGED saveRest

\* manager.py:163-169: render, resolve the path, back the old file up
SaveCall ==
    /\ svPc \in {"idle", "returned", "raised"}
    /\ \E b \in BOOLEAN, c \in Contents :
         /\ svBackup' = b
         /\ svContent' = c
         /\ svPrior' = fsFiles
         /\ svResult' = NoWriteResult
         /\ IF ShouldBackup(b, fsFiles)
            THEN /\ fsFiles' = CreateBackup(fsFiles, fsNow)
                 /\ svBackupPath' = BackupPathOf(fsNow)
            ELSE /\ fsFiles' = fsFiles
                 /\ svBackupPath' = NoPath
         /\ svPc' = "backed"
    /\ UNCHANGED fsNow
    /\ UNCHANGED saveRest

\* manager.py:123-125: render_metadata rejects a snapshot without projectId
SaveCallInvalid ==
    /\ svPc \in {"idle", "returned", "raised"}
    /\ svPc' = "raised"
    /\ svPrior' = fsFiles
    /\ svResult' = NoWriteResult
    /\ svBackupPath' = NoPath
    /\ UNCHANGED <<fsFiles, fsNow, svBackup, svContent>>
    /\ UNCHANGED saveRest

\* manager.py:171-172: write the new text, return path and backup_path
SaveWrite ==
    /\ svPc = "backed"
    /\ fsFiles' = WriteText(fsFiles, svContent)
    /\ svResult' = [path |-> MetadataPath, backup_path |-> svBackupPath]
    /\ svPc' = "returned"
    /\ UNCHANGED <<fsNow, svBackup, svContent, svBackupPath, svPrior>>
    /\ UNCHANGED saveRest

NextSave ==
    \/ Tick
    \/ SaveCall
    \/ SaveCallInvalid
    \/ SaveWrite

SpecSave == SaveInit /\ [][NextSave]_vars

\* C11: with backup enabled and the target already there, save_metadata
\* first creates metadata.md.bak.<timestamp> holding exactly the prior
\* content while the target still holds it, then overwrites the target with
\* the new text and returns the backup's path; with no target there, no
\* backup file appears and the returned backup_path is None.
C11_BackupBeforeOverwrite ==
    /\ (svPc \in {"backed", "returned"} /\ svBackup
          /\ svPrior[MetadataPath] # NoFile)
       => /\ svBackupPath \in BackupPaths
          /\ fsFiles[svBackupPath] = svPrior[MetadataPath]
          /\ \A p \in BackupPaths \ {svBackupPath} : fsFiles[p] = svPrior[p]
          /\ svPc = "backed" => fsFiles[MetadataPath] = svPrior[MetadataPath]
          /\ svPc = "returned"
             => /\ fsFiles[MetadataPath] = svContent
                /\ svResult = [path |-> MetadataPath,
                               backup_path |-> svBackupPath]
    /\ (svPc \in {"backed", "returned"} /\ svBackup
          /\ svPrior[MetadataPath] = NoFile)
       => /\ \A p \in BackupPaths : fsFiles[p] = svPrior[p]
          /\ svPc = "returned"
             => /\ fsFiles[MetadataPath] = svContent
                /\ svResult = [path |-> MetadataPath, backup_path |-> NoPath]

\* a save that returned a backup whose content differs from the new text
C11_Witness ==
    /\ svPc = "returned" /\ svBackup
    /\ svResult.backup_path \in BackupPaths
    /\ fsFiles[svResult.backup_path] = svPrior[MetadataPath]
    /\ fsFiles[MetadataPath] # svPrior[MetadataPath]

\* ------------------------------------------------------ render_metadata
MaxDatasets == 2      \* datasets of a snapshot
MaxTables == 2        \* tables of a dataset

\* identifiers are strings, written as sequences of code points
DatasetIds == {<<1>>, <<1, 2>>, <<2>>}
TableIds == {<<1>>, <<1, 2>>}
TableEntries == {1, 2}      \* what a table entry holds (schema, sampleRows)

\* Python's order of str: the first differing code point decides, a proper
\* prefix comes first
LexLess(a, b) ==
    \E k \in 1..(Len(a) + 1) :
        /\ \A i \in 1..(k - 1) : i <= Len(b) /\ a[i] = b[i]
        /\ k <= Len(b)
        /\ (k <= Len(a) => a[k] < b[k])

RECURSIVE InsertById(_, _)
InsertById(x, s) ==
    IF s = <<>> THEN <<x>>
    ELSE IF LexLess(x.id, Head(s).id) THEN <<x>> \o s
    ELSE <<Head(s)>> \o InsertById(x, Tail(s))

\* variant: the items are left in insertion order
SortItems_asInserted(items) == items

\* sorted(d.items()) of a dict d held in insertion order (lines 102, 127)
RECURSIVE SortItems(_)
SortItems(items) ==
    IF items = <<>> THEN <<>>
    ELSE InsertById(Head(items), SortItems(Tail(items)))

RECURSIVE Flatten(_)
Flatten(ss) == IF ss = <<>> THEN <<>> ELSE Head(ss) \o Flatten(Tail(ss))

Line(kind, ds, tbl, n) == [kind |-> kind, ds |-> ds, tbl |-> tbl, n |-> n]

\* lines 94-113
RenderDataset(dataset_id, tables) ==
    LET table_items == SortItems(tables) IN
    <<Line("dataset", dataset_id, <<>>, 0)>> \o
    (IF tables = <<>> THEN <<Line("no tables", <<>>, <<>>, 0)>>
     ELSE Flatten([k \in 1..Len(table_items) |->
            <<Line("table", dataset_id, table_items[k].id, 0),
              Line("schema and samples", <<>>, <<>>,
                   table_items[k].entry)>>]))

\* lines 127-152
RenderMetadata(datasets, generated_at) ==
    LET dataset_items == SortItems(datasets) IN
    <<Line("title", <<>>, <<>>, 0),
      Line("dataset count", <<>>, <<>>, Len(dataset_items)),
      Line("generated at", <<>>, <<>>, generated_at)>> \o
    (IF dataset_items # <<>>
     THEN [k \in 1..Len(dataset_items) |->
             Line("row", dataset_items[k].id, <<>>,
                  Len(dataset_items[k].tables))]
     ELSE <<Line("no datasets", <<>>, <<>>, 0)>>) \o
    Flatten([k \in 1..Len(dataset_items) |->
               RenderDataset(dataset_items[k].id, dataset_items[k].tables)])

\* mappings: sequences of items with pairwise distinct keys
DistinctIds(items) ==
    \A i, j \in 1..Len(items) : i # j => items[i].id # items[j].id
TableMaps ==
    {t \in SeqsUpTo([id : TableIds, entry : TableEntries], MaxTables) :
        DistinctIds(t)}
DatasetMaps ==
    {d \in SeqsUpTo([id : DatasetIds, tables : TableMaps], MaxDatasets) :
        DistinctIds(d)}

Perms(n) == {f \in [1..n -> 1..n] : \A i, j \in 1..n : i # j => f[i] # f[j]}
Reverse(s) == [k \in 1..Len(s) |-> s[Len(s) + 1 - k]]
\* the same mapping, populated in another order
Repopulate(datasets, perm, rev) ==
    [k \in 1..Len(datasets) |->
        [id |-> datasets[perm[k]].id,
         tables |-> IF rev THEN Reverse(datasets[perm[k]].tables)
                    ELSE datasets[perm[k]].tables]]

RenderInit ==
    /\ RunInit /\ FmtIdle /\ RenderRestIdle
    /\ rdSnap \in DatasetMaps
    /\ \E perm \in Perms(Len(rdSnap)), rev \in BOOLEAN :
          rdSnap2 = Repopulate(rdSnap, perm, rev)
    /\ rdTime = 1
    /\ rdOut = <<>> /\ rdOut2 = <<>> /\ rdDone = FALSE

\* render_metadata on each of the two snapshots, at the same timestamp
RenderCall ==
    /\ ~rdDone
    /\ rdOut' = RenderMetadata(rdSnap, rdTime)
    /\ rdOut2' = RenderMetadata(rdSnap2, rdTime)
    /\ rdDone' = TRUE
    /\ UNCHANGED <<rdSnap, rdSnap2, rdTime>>
    /\ UNCHANGED renderRest

NextRender == RenderCall

SpecRender == RenderInit /\ [][NextRender]_vars

\* C12: in the rendered document the datasets, in the list table and in the
\* sections, and the tables of each dataset stand in ascending
\* lexicographic order of identifier, every one of them present; two
\* snapshots of the same contents populated in different orders render to
\* the same lines at the same timestamp.
C12_SortedAndOrderFree ==
    rdDone =>
      /\ rdOut = rdOut2
      /\ \A i, j \in 1..Len(rdOut) :
            /\ (i < j /\ rdOut[i].kind = "row" /\ rdOut[j].kind = "row")
               => LexLess(rdOut[i].ds, rdOut[j].ds)
            /\ (i < j /\ rdOut[i].kind = "dataset"
                  /\ rdOut[j].kind = "dataset")
               => LexLess(rdOut[i].ds, rdOut[j].ds)
            /\ (i < j /\ rdOut[i].kind = "table" /\ rdOut[j].kind = "table"
                  /\ rdOut[i].ds = rdOut[j].ds)
               => LexLess(rdOut[i].tbl, rdOut[j].tbl)
      /\ \A kind \in {"row", "dataset"} :
            {l.ds : l \in {m \in Range(rdOut) : m.kind = kind}}
              = {d.id : d \in Range(rdSnap)}
      /\ \A d \in Range(rdSnap) :
            {l.tbl : l \in {m \in Range(rdOut) :
                               m.kind = "table" /\ m.ds = d.id}}
              = {t.id : t \in Range(d.tables)}

\* two datasets and two tables, each populated in descending order in one
\* snapshot and in ascending order in the other
C12_Witness ==
    /\ rdDone
    /\ Len(rdSnap) = 2 /\ LexLess(rdSnap[2].id, rdSnap[1].id)
    /\ rdSnap2 # rdSnap
    /\ \E k \in 1..2 :
          /\ Len(rdSnap[k].tables) = 2
          /\ LexLess(rdSnap[k].tables[2].id, rdSnap[k].tables[1].id)

\* --------------------------------------------------- the accounts table
MaxLogins == 3        \* OAuth logins attempted in one run

Emails == {"a@example.com", "b@example.com"}
RefreshTokens == {"r1", "r2"}
\* what run_oauth_and_save_account raises (google.py:104, 120)
OAuthFailures == {"FileNotFoundError", "RuntimeError"}

\* models.py:101-104, SELECT * FROM accounts WHERE email = ?
RowsByEmail(accounts, email) ==
    {k \in 1..Len(accounts) : accounts[k].email = email}

\* variant: the stored token is kept
UpdateRefreshToken_keep(accounts, account_id, refresh_token) == accounts

\* models.py:113-119, UPDATE accounts SET refresh_token = ? WHERE id = ?
UpdateRefreshToken(accounts, account_id, refresh_token) ==
    [k \in 1..Len(accounts) |->
        IF accounts[k].id = account_id
        THEN [accounts[k] EXCEPT !.refresh_token = refresh_token]
        ELSE accounts[k]]

\* models.py:75-98: INSERT; the UNIQUE constraint on email turns a second
\* INSERT of an email into an UPDATE by email.  AUTOINCREMENT and no DELETE
\* in normal operation: the new id is one more than the number of rows.
CreateAccount(accounts, email, refresh_token, now) ==
    IF RowsByEmail(accounts, email) = {}
    THEN [accounts |-> Append(accounts,
                         [id |-> Len(accounts) + 1, email |-> email,
                          refresh_token |-> refresh_token,
                          created_at |-> now]),
          id |-> Len(accounts) + 1]
    ELSE [accounts |->
            [k \in 1..Len(accounts) |->
                IF accounts[k].email = email /\ refresh_token # None
                THEN [accounts[k] EXCEPT !.refresh_token = refresh_token]
                ELSE accounts[k]],
          id |-> accounts[CHOOSE k \in RowsByEmail(accounts, email) : TRUE].id]

\* google.py:90-94 _save_account, once the email is known
SaveAccount(accounts, email, refresh_token, now) ==
    IF RowsByEmail(accounts, email) # {}
    THEN LET acct == accounts[CHOOSE k \in RowsByEmail(accounts, email) : TRUE]
         IN [accounts |-> UpdateRefreshToken(accounts, acct.id, refresh_token),
             id |-> acct.id]
    ELSE CreateAccount(accounts, email, refresh_token, now)

AccountsInit ==
    /\ RunInit /\ FmtIdle /\ AccountsRestIdle
    /\ acRows = <<>> /\ acLogins = 0 /\ acLast = NoLogin

\* google.py:97-122 run_oauth_and_save_account, consent given
Login ==
    /\ acLogins < MaxLogins
    /\ \E email \in Emails, refresh_token \in RefreshTokens :
         LET saved == SaveAccount(acRows, email, refresh_token, fsNow) IN
         /\ acRows' = saved.accounts
         /\ acLast' = [outcome |-> "saved", email |-> email,
                       token |-> refresh_token, id |-> saved.id,
                       before |-> acRows]
    /\ acLogins' = acLogins + 1
    /\ UNCHANGED accountsRest

\* google.py:103-107, 118-120: no client secrets, or no refresh token issued
LoginFails ==
    /\ acLogins < MaxLogins
    /\ \E failure \in OAuthFailures :
         acLast' = [outcome |-> failure, email |-> "", token |-> None,
                    id |-> 0, before |-> acRows]
    /\ acLogins' = acLogins + 1
    /\ UNCHANGED acRows
    /\ UNCHANGED accountsRest

NextAccounts ==
    \/ Login
    \/ LoginFails
    \/ Tick

SpecAccounts == AccountsInit /\ [][NextAccounts]_vars

\* C19: the accounts table never holds two rows with one email; a login for
\* an email that already has an account returns that account's id, stores
\* the newly issued refresh token in its row and adds no row; every row that
\* was there before a login is still there, under the same id and email.
C19_OneRowPerEmail ==
    /\ \A i, j \in 1..Len(acRows) :
          i # j => acRows[i].email # acRows[j].email
    /\ acLast.outcome = "saved" =>
         /\ \A k \in 1..Len(acLast.before) :
               /\ acRows[k].id = acLast.before[k].id
               /\ acRows[k].email = acLast.before[k].email
               /\ acRows[k].email # acLast.email
                  => acRows[k] = acLast.before[k]
               /\ acRows[k].email = acLast.email
                  => /\ acLast.id = acRows[k].id
                     /\ acRows[k].refresh_token = acLast.token
                     /\ Len(acRows) = Len(acLast.before)
         /\ \E k \in 1..Len(acRows) :
               /\ acRows[k].id = acLast.id
               /\ acRows[k].email = acLast.email
               /\ acRows[k].refresh_token = acLast.token
    /\ acLast.outcome # "saved" => acRows = acLast.before

\* a login that rotated the token of the older of two accounts
C19_Witness ==
    /\ acLast.outcome = "saved"
    /\ Len(acLast.before) = 2
    /\ acLast.before[1].email = acLast.email
    /\ acLast.before[1].refresh_token # acLast.token
    /\ acRows[1].refresh_token = acLast.token

\* ------------------------------------------------------- the chat loop
MaxInputs == 2        \* lines the user types in one session

\* a line is a sequence of characters
Blank == " "
RECURSIVE LStrip(_)
LStrip(line) ==
    IF line # <<>> /\ Head(line) = Blank THEN LStrip(Tail(line)) ELSE line
\* str.strip()
Strip(line) == Reverse(LStrip(Reverse(LStrip(line))))

LowerOf(c) ==
    CASE c = "E" -> "e" [] c = "X" -> "x" [] c = "I" -> "i" [] c = "T" -> "t"
      [] c = "Q" -> "q" [] c = "U" -> "u" [] OTHER -> c
\* str.lower()
Lower(text) == [k \in 1..Len(text) |-> LowerOf(text[k])]

WordExit == <<"e", "x", "i", "t">>
WordQuit == <<"q", "u", "i", "t">>
CmdLogin == <<"/", "l", "o", "g", "i", "n">>
CmdReauth == <<"/", "r", "e", "a", "u", "t", "h">>
CmdInit == <<"/", "i", "n", "i", "t">>
EchoPrefix == <<"E", "c", "h", "o", ":", " ">>

\* what the user may type
Lines ==
    {<<>>, <<Blank, Blank>>,
     WordExit, <<Blank, "E", "x", "i", "t", Blank>>, <<"Q", "U", "I", "T">>,
     CmdLogin, <<Blank>> \o CmdReauth, CmdInit \o <<Blank>>,
     <<"/", "I", "n", "i", "t">>, <<"/", "x">>,
     <<"h", "i">>, WordExit \o <<Blank, "x">>}

\* variant: the exit words are matched as typed
IsExit_caseSensitive(text) == text \in {WordExit, WordQuit}

\* session.py:55
IsExit(text) == Lower(text) \in {WordExit, WordQuit}

\* session.py:58 and commands.py:150-155: the handler a line names
Handler(text) ==
    IF text = <<>> \/ Head(text) # "/" THEN "none"
    ELSE IF Strip(text) \in {CmdLogin, CmdReauth} THEN "login"
    ELSE IF Strip(text) = CmdInit THEN "init"
    ELSE "none"

\* commands.py:138-142: _login has no except clause
LoginCatches(exc) == FALSE

\* the steps of _init that can fail, and how (commands.py:57-130)
InitFailures ==
    ({"list_projects", "list_datasets", "metadata_snapshot"}
        \X {"BigQueryClientError", "ConnectionError"})
    \cup ({"project prompt", "confirm prompt"}
        \X {"KeyboardInterrupt", "EOFError"})
    \cup {<<"save_metadata", "OSError">>}
\* the ways _init ends early without a failure (lines 54, 64, 78, 111)
InitStops ==
    {<<"no project", "">>, <<"project prompt", "cancelled">>,
     <<"confirm prompt", "cancelled">>}

\* variant: _init has no except clause
InitCatches_none(step, exc) == FALSE

\* the except clauses of _init (lines 59, 74, 98, 107, 124, 129)
InitCatches(step, exc) ==
    CASE step \in {"list_projects", "list_datasets", "metadata_snapshot"}
           -> exc = "BigQueryClientError"
      [] step \in {"project prompt", "confirm prompt"}
           -> exc = "KeyboardInterrupt"
      [] step = "save_metadata" -> exc # "KeyboardInterrupt"
      [] OTHER -> FALSE

\* list_accounts is ORDER BY created_at DESC; rows of one second come in an
\* order SQL leaves open.  The first row with a refresh token is taken
\* (session.py:17-23, commands.py:22-26).
ActiveAccountIds(accounts) ==
    {accounts[k].id : k \in
        {i \in 1..Len(accounts) :
            /\ Truthy(accounts[i].refresh_token)
            /\ \A j \in 1..Len(accounts) :
                  Truthy(accounts[j].refresh_token)
                  => accounts[j].created_at <= accounts[i].created_at}}

\* manager.py:155-172 in one step
SaveMetadata(files, content, now) ==
    WriteText(IF ShouldBackup(TRUE, files) THEN CreateBackup(files, now)
              ELSE files, content)

\* variant: every row is stored under the role "user"
Message_asUser(role, content) ==
    [session_id |-> chSessionId, role |-> "user", content |-> content]

\* the row add_message inserts for the running session
Message(role, content) ==
    [session_id |-> chSessionId, role |-> role, content |-> content]

\* variant: a second row is inserted
CreateSession_twice(sessions, account_id) ==
    [sessions |-> sessions \o
                    <<[id |-> Len(sessions) + 1, account_id |-> account_id],
                      [id |-> Len(sessions) + 2, account_id |-> account_id]>>,
     id |-> Len(sessions) + 2]

\* models.py:127-134, INSERT INTO sessions(account_id); AUTOINCREMENT and
\* no DELETE: the new id is one more than the number of rows
CreateSession(sessions, account_id) ==
    [sessions |-> Append(sessions, [id |-> Len(sessions) + 1,
                                    account_id |-> account_id]),
     id |-> Len(sessions) + 1]
Seen(line, outcome, handler, failure, account) ==
    [line |-> line, outcome |-> outcome, handler |-> handler,
     failure |-> failure, account |-> account, before |-> chMessages]

ChatInit ==
    /\ RunInit /\ FmtIdle /\ ChatRestIdle
    /\ SaveIdle
    /\ acRows \in {<<>>,
                   <<[id |-> 1, email |-> "a@example.com",
                      refresh_token |-> "r1", created_at |-> 1]>>,
                   <<[id |-> 1, email |-> "a@example.com",
                      refresh_token |-> "r1", created_at |-> 0],
                     [id |-> 2, email |-> "b@example.com",
                      refresh_token |-> "r2", created_at |-> 1]>>}
    /\ acLogins = 0 /\ acLast = NoLogin
    /\ chPc = "start" /\ chSession = 0 /\ chMessages = <<>> /\ chRead = 0
    /\ chSessions \in {<<>>} \cup
         {<<[id |-> 1, account_id |-> acRows[k].id]>> :
             k \in 1..Len(acRows)}
    /\ chSessionId = 0 /\ chFound = chSessions
    /\ chLast = NoLine

\* session.py:37-43 with an account at hand
ChatStart ==
    /\ chPc = "start"
    /\ \E account_id \in ActiveAccountIds(acRows) :
          /\ chSession' = account_id
          /\ chSessions' = CreateSession(chSessions, account_id).sessions
          /\ chSessionId' = CreateSession(chSessions, account_id).id
    /\ chPc' = "read"
    /\ UNCHANGED <<chFound, chMessages, chRead, chLast>>
    /\ UNCHANGED <<acVars, svVars, chatRest>>

\* session.py:38-43: no account with a token, the setup wizard runs OAuth
ChatStartWizard ==
    /\ chPc = "start"
    /\ ActiveAccountIds(acRows) = {}
    /\ \/ \E email \in Emails, refresh_token \in RefreshTokens :
            LET saved == SaveAccount(acRows, email, refresh_token, fsNow) IN
            /\ acRows' = saved.accounts
            /\ acLast' = [outcome |-> "saved", email |-> email,
                          token |-> refresh_token, id |-> saved.id,
                          before |-> acRows]
            /\ chSession' = saved.id
            /\ chSessions' = CreateSession(chSessions, saved.id).sessions
            /\ chSessionId' = CreateSession(chSessions, saved.id).id
            /\ chPc' = "read"
       \/ \E failure \in OAuthFailures :
            /\ acLast' = [outcome |-> failure, email |-> "", token |-> None,
                          id |-> 0, before |-> acRows]
            /\ chPc' = "raised"
            /\ UNCHANGED <<acRows, chSession, chSessions, chSessionId>>
    /\ acLogins' = acLogins + 1
    /\ UNCHANGED <<chFound, chMessages, chRead, chLast>>
    /\ UNCHANGED <<svVars, chatRest>>

\* session.py:47-51: end of input
ChatEof ==
    /\ chPc = "read"
    /\ chPc' = "ended"
    /\ chLast' = Seen(<<>>, "eof", "none", NoFailure, 0)
    /\ UNCHANGED <<chSession, chSessions, chSessionId, chFound, chMessages,
                   chRead>>
    /\ UNCHANGED <<acVars, svVars, chatRest>>

\* session.py:52-54: a line that strips to nothing
ChatBlank ==
    /\ chPc = "read" /\ chRead < MaxInputs
    /\ \E line \in Lines :
         /\ Strip(line) = <<>>
         /\ chLast' = Seen(line, "ignored", "none", NoFailure, 0)
    /\ chRead' = chRead + 1
    /\ UNCHANGED <<chPc, chSession, chSessions, chSessionId, chFound,
                   chMessages>>
    /\ UNCHANGED <<acVars, svVars, chatRest>>

\* session.py:55-57
ChatExit ==
    /\ chPc = "read" /\ chRead < MaxInputs
    /\ \E line \in Lines :
         /\ Strip(line) # <<>>
         /\ IsExit(Strip(line))
         /\ chLast' = Seen(line, "ended", "none", NoFailure, 0)
    /\ chPc' = "ended"
    /\ chRead' = chRead + 1
    /\ UNCHANGED <<chSession, chSessions, chSessionId, chFound, chMessages>>
    /\ UNCHANGED <<acVars, svVars, chatRest>>

\* session.py:58-65 with commands.py:151-152 and 138-142: /login, /reauth
ChatLogin ==
    /\ chPc = "read" /\ chRead < MaxInputs
    /\ \E line \in Lines :
         /\ Strip(line) # <<>>
         /\ ~IsExit(Strip(line))
         /\ Handler(Strip(line)) = "login"
         /\ \/ \E email \in Emails, refresh_token \in RefreshTokens :
                 LET saved == SaveAccount(acRows, email, refresh_token, fsNow)
                 IN
                 /\ acRows' = saved.accounts
                 /\ acLast' = [outcome |-> "saved", email |-> email,
                               token |-> refresh_token, id |-> saved.id,
                               before |-> acRows]
                 /\ chLast' = Seen(line, "handled", "login", NoFailure,
                                   saved.id)
                 /\ chPc' = "read"
            \/ \E failure \in OAuthFailures :
                 /\ acLast' = [outcome |-> failure, email |-> "",
                               token |-> None, id |-> 0, before |-> acRows]
                 /\ UNCHANGED acRows
                 /\ IF LoginCatches(failure)
                    THEN /\ chLast' = Seen(line, "handled", "login",
                                           <<"oauth", failure>>, 0)
                         /\ chPc' = "read"
                    ELSE /\ chLast' = Seen(line, "raised", "login",
                                           <<"oauth", failure>>, 0)
                         /\ chPc' = "raised"
    /\ acLogins' = acLogins + 1
    /\ chRead' = chRead + 1
    /\ UNCHANGED <<chSession, chSessions, chSessionId, chFound, chMessages>>
    /\ UNCHANGED <<svVars, chatRest>>

\* session.py:58-65 with commands.py:153-154 and 50-135: /init
ChatInitCommand ==
    /\ chPc = "read" /\ chRead < MaxInputs
    /\ \E line \in Lines :
         /\ Strip(line) # <<>>
         /\ ~IsExit(Strip(line))
         /\ Handler(Strip(line)) = "init"
         /\ IF ActiveAccountIds(acRows) = {}
            THEN /\ chLast' = Seen(line, "handled", "init",
                                   <<"no account", "">>, 0)
                 /\ chPc' = "read"
                 /\ UNCHANGED fsFiles
            ELSE \E account_id \in ActiveAccountIds(acRows) :
                 \/ \E stop \in InitStops :
                      /\ chLast' = Seen(line, "handled", "init", stop,
                                        account_id)
                      /\ chPc' = "read"
                      /\ UNCHANGED fsFiles
                 \/ \E failure \in InitFailures :
                      /\ UNCHANGED fsFiles
                      /\ IF InitCatches(failure[1], failure[2])
                         THEN /\ chLast' = Seen(line, "handled", "init",
                                                failure, account_id)
                              /\ chPc' = "read"
                         ELSE /\ chLast' = Seen(line, "raised", "init",
                                                failure, account_id)
                              /\ chPc' = "raised"
                 \/ \E content \in Contents :
                      /\ fsFiles' = SaveMetadata(fsFiles, content, fsNow)
                      /\ chLast' = Seen(line, "handled", "init", NoFailure,
                                        account_id)
                      /\ chPc' = "read"
    /\ chRead' = chRead + 1
    /\ UNCHANGED <<chSession, chSessions, chSessionId, chFound, chMessages>>
    /\ UNCHANGED <<fsNow, svPc, svBackup, svContent, svBackupPath, svResult,
                   svPrior>>
    /\ UNCHANGED <<acVars, chatRest>>

\* session.py:66-74: anything else is stored and echoed
ChatMessage ==
    /\ chPc = "read" /\ chRead < MaxInputs
    /\ \E line \in Lines :
         /\ Strip(line) # <<>>
         /\ ~IsExit(Strip(line))
         /\ Handler(Strip(line)) = "none"
         /\ chMessages' = chMessages \o
                <<Message("user", Strip(line)),
                  Message("assistant", EchoPrefix \o Strip(line))>>
         /\ chLast' = Seen(line, "persisted", "none", NoFailure, 0)
    /\ chRead' = chRead + 1
    /\ UNCHANGED <<chPc, chSession, chSessions, chSessionId, chFound>>
    /\ UNCHANGED <<acVars, svVars, chatRest>>

NextChat ==
    \/ ChatStart
    \/ ChatStartWizard
    \/ ChatEof
    \/ ChatBlank
    \/ ChatExit
    \/ ChatLogin
    \/ ChatInitCommand
    \/ ChatMessage
    \/ Tick

SpecChat == ChatInit /\ [][NextChat]_vars

\* C13: whatever fails under a slash command, the handler returns a display
\* string and the loop reads on; no failure of a handler leaves the loop.
C13_HandlersNeverRaise ==
    chLast.handler # "none" => chLast.outcome = "handled" /\ chPc = "read"

\* C14: a line that strips to exit or quit in any letter case ends the loop
\* and stores nothing; /login, /reauth and /init go to their handler and are
\* not stored; a blank line is ignored; every other line, a '/' line that
\* names no handler included, is stored as a user message followed by the
\* assistant message "Echo: <line>".
C14_LineDispatch ==
    chLast.outcome \notin {"none", "eof"} =>
      LET text == Strip(chLast.line) IN
      CASE text = <<>> ->
             /\ chLast.outcome = "ignored"
             /\ chMessages = chLast.before
        [] text # <<>> /\ Lower(text) \in {WordExit, WordQuit} ->
             /\ chPc = "ended"
             /\ chMessages = chLast.before
        [] text \in {CmdLogin, CmdReauth} ->
             /\ chLast.handler = "login"
             /\ chMessages = chLast.before
        [] text = CmdInit ->
             /\ chLast.handler = "init"
             /\ chMessages = chLast.before
        [] OTHER ->
             /\ chLast.outcome = "persisted"
             /\ chPc = "read"
             /\ chMessages = chLast.before \o
                    <<Message("user", text),
                      Message("assistant", EchoPrefix \o text)>>

\* a '/' line that names no handler was stored and echoed, after an
\* earlier line was stored
C14_Witness ==
    /\ chLast.outcome = "persisted"
    /\ chLast.line # <<>> /\ Head(chLast.line) = "/"
    /\ Len(chMessages) = 4

\* ------------------------------------- metadata_snapshot and _init
MaxListed == 2        \* identifiers in one listing

SnapDatasetIds == {<<1>>, <<2>>}
DEFAULT_SAMPLE_N == 3
SampleNs == {0, DEFAULT_SAMPLE_N}

\* what a listing call can return: identifiers, pairwise distinct
Listings(ids) ==
    {l \in SeqsUpTo(ids, MaxListed) :
        \A i, j \in 1..Len(l) : i # j => l[i] # l[j]}

\* how the server answers one client call: a JSON body, a status >= 400
\* (client.py:54-61), or no answer at all (session.request raises, line 53)
Replies == {"ok", "BigQueryClientError", "ConnectionError"}

\* variant: a failed call is passed over
SnapRaises_never(reply) == FALSE

\* nothing between a client call and the caller of metadata_snapshot
\* catches (client.py:461-482)
SnapRaises(reply) == reply # "ok"

\* client.py:462, `datasets or client.list_datasets()`
ListsDatasets(datasets) == ~datasets.given \/ datasets.ids = <<>>

\* d[key] = value on a dict held in insertion order
Put(mapping, key, value) ==
    IF \E k \in 1..Len(mapping) : mapping[k].id = key
    THEN [k \in 1..Len(mapping) |->
            IF mapping[k].id = key THEN [id |-> key, value |-> value]
            ELSE mapping[k]]
    ELSE Append(mapping, [id |-> key, value |-> value])

\* the server's schema of a table, and its sample (client.py:230-231: no
\* rows are asked for when max_results <= 0)
SchemaOf(dataset_id, table_id) == <<dataset_id, table_id>>
SamplesOf(dataset_id, table_id, max_results) ==
    IF max_results <= 0 THEN <<>> ELSE <<dataset_id, table_id>>

Called(calls, method) == [calls EXCEPT ![method] = calls[method] + 1]
FirstFailure(failed, method, reply) ==
    IF failed = NoFailure /\ reply # "ok" THEN <<method, reply>> ELSE failed

SnapshotInit ==
    /\ RunInit /\ FmtIdle /\ SnapshotRestIdle
    /\ SnapshotIdle
    /\ fsFiles \in {f \in [FsPaths -> {NoFile} \cup Contents] :
                        \A p \in BackupPaths : f[p] = NoFile}
    /\ fsNow = 1
    /\ svPc = "idle" /\ svBackup = TRUE /\ svContent = NoFile
    /\ svBackupPath = NoPath /\ svResult = NoWriteResult
    /\ svPrior = EmptyStore
    /\ acRows \in {<<>>,
                   <<[id |-> 1, email |-> "a@example.com",
                      refresh_token |-> "r1", created_at |-> 1]>>}
    /\ acLogins = 0 /\ acLast = NoLogin

snWalk == <<snIds, snI, snTables, snJ, snEntry, snSnapshot, snListed>>

\* a raise out of metadata_snapshot
SnapFails(method, reply) ==
    /\ snPc' = "raised"
    /\ snError' = <<method, reply>>
    /\ UNCHANGED snResult

\* a caller other than _init: metadata_snapshot(project_id, datasets=...,
\* sample_n=...)
SnapDirectCall ==
    /\ snPc = "idle" /\ inPc = "idle"
    /\ \E given \in BOOLEAN, ids \in Listings(SnapDatasetIds),
          sample_n \in SampleNs :
         /\ ~given => ids = <<>>
         /\ snArg' = [given |-> given, ids |-> ids]
         /\ snSampleN' = sample_n
    /\ snPc' = "client"
    /\ UNCHANGED <<snWalk, snResult, snError, snCalls, snFailed>>
    /\ UNCHANGED <<inVars, snapshotRest>>

\* client.py:461: BQClient(...) builds the authorized session
SnapClient ==
    /\ snPc = "client"
    /\ \E reply \in {"ok", "BigQueryClientError"} :
         /\ snFailed' = FirstFailure(snFailed, "BQClient", reply)
         /\ IF SnapRaises(reply) THEN SnapFails("BQClient", reply)
            ELSE /\ snPc' = "datasets"
                 /\ UNCHANGED <<snError, snResult>>
    /\ UNCHANGED <<snArg, snSampleN, snWalk, snCalls>>
    /\ UNCHANGED <<inVars, snapshotRest>>

\* client.py:462-468
SnapDatasets ==
    /\ snPc = "datasets"
    /\ IF ListsDatasets(snArg)
       THEN \E reply \in Replies, listing \in Listings(SnapDatasetIds) :
              /\ snCalls' = Called(snCalls, "list_datasets")
              /\ snFailed' = FirstFailure(snFailed, "list_datasets", reply)
              /\ IF SnapRaises(reply)
                 THEN /\ SnapFails("list_datasets", reply)
                      /\ UNCHANGED snIds
                 ELSE /\ snIds' = (IF reply = "ok" THEN listing ELSE <<>>)
                      /\ snPc' = "tables"
                      /\ UNCHANGED <<snError, snResult>>
       ELSE /\ snIds' = snArg.ids
            /\ snPc' = "tables"
            /\ UNCHANGED <<snError, snResult, snCalls, snFailed>>
    /\ UNCHANGED <<snArg, snSampleN, snI, snTables, snJ, snEntry, snSnapshot,
                   snListed>>
    /\ UNCHANGED <<inVars, snapshotRest>>

\* client.py:470-472: the next dataset
SnapListTables ==
    /\ snPc = "tables" /\ snI <= Len(snIds)
    /\ \E reply \in Replies, listing \in Listings(TableIds) :
         /\ snCalls' = Called(snCalls, "list_tables")
         /\ snFailed' = FirstFailure(snFailed, "list_tables", reply)
         /\ IF SnapRaises(reply)
            THEN /\ SnapFails("list_tables", reply)
                 /\ UNCHANGED <<snTables, snListed>>
            ELSE /\ snTables' = (IF reply = "ok" THEN listing ELSE <<>>)
                 /\ snListed' = Put(snListed, snIds[snI], snTables')
                 /\ snPc' = "schema"
                 /\ UNCHANGED <<snError, snResult>>
    /\ snJ' = 1 /\ snEntry' = <<>>
    /\ UNCHANGED <<snArg, snSampleN, snIds, snI, snSnapshot>>
    /\ UNCHANGED <<inVars, snapshotRest>>

\* client.py:473-474: the next table
SnapSchema ==
    /\ snPc = "schema" /\ snJ <= Len(snTables)
    /\ \E reply \in Replies :
         /\ snCalls' = Called(snCalls, "get_table_schema")
         /\ snFailed' = FirstFailure(snFailed, "get_table_schema", reply)
         /\ IF SnapRaises(reply) THEN SnapFails("get_table_schema", reply)
            ELSE /\ snPc' = "sample"
                 /\ UNCHANGED <<snError, snResult>>
    /\ UNCHANGED <<snArg, snSampleN, snWalk>>
    /\ UNCHANGED <<inVars, snapshotRest>>

\* client.py:475-479
SnapSample ==
    /\ snPc = "sample"
    /\ \E reply \in (IF snSampleN <= 0 THEN {"ok"} ELSE Replies) :
         /\ snCalls' = Called(snCalls, "sample_rows")
         /\ snFailed' = FirstFailure(snFailed, "sample_rows", reply)
         /\ IF SnapRaises(reply)
            THEN /\ SnapFails("sample_rows", reply)
                 /\ UNCHANGED <<snEntry, snJ>>
            ELSE /\ snEntry' = Put(snEntry, snTables[snJ],
                        [schema |-> SchemaOf(snIds[snI], snTables[snJ]),
                         sampleRows |->
                            IF reply = "ok"
                            THEN SamplesOf(snIds[snI], snTables[snJ],
                                           snSampleN)
                            ELSE <<>>])
                 /\ snJ' = snJ + 1
                 /\ snPc' = "schema"
                 /\ UNCHANGED <<snError, snResult>>
    /\ UNCHANGED <<snArg, snSampleN, snIds, snI, snTables, snSnapshot,
                   snListed>>
    /\ UNCHANGED <<inVars, snapshotRest>>

\* client.py:480: the dataset is done
SnapDatasetDone ==
    /\ snPc = "schema" /\ snJ > Len(snTables)
    /\ snSnapshot' = Put(snSnapshot, snIds[snI], snEntry)
    /\ snI' = snI + 1
    /\ snPc' = "tables"
    /\ UNCHANGED <<snArg, snSampleN, snIds, snTables, snJ, snEntry, snResult,
                   snError, snCalls, snListed, snFailed>>
    /\ UNCHANGED <<inVars, snapshotRest>>

\* client.py:482
SnapReturn ==
    /\ snPc = "tables" /\ snI > Len(snIds)
    /\ snResult' = [returned |-> TRUE, datasets |-> snSnapshot]
    /\ snPc' = "returned"
    /\ UNCHANGED <<snArg, snSampleN, snWalk, snError, snCalls, snFailed>>
    /\ UNCHANGED <<inVars, snapshotRest>>

\* ---- _init
InitReturns(step, how) ==
    /\ inPc' = "returned"
    /\ inReply' = <<step, how>>
\* a failure at a step of _init: a display string if an except clause
\* matches, a raise out of the handler otherwise
InitFailsAt(step, exc) ==
    /\ inPc' = IF InitCatches(step, exc) THEN "returned" ELSE "raised"
    /\ inReply' = <<step, exc>>

\* commands.py:50-54
InitCall ==
    /\ inPc = "idle" /\ snPc = "idle"
    /\ inFound' = fsFiles
    /\ inClients' = 0
    /\ IF ActiveAccountIds(acRows) = {}
       THEN InitReturns("no account", "")
       ELSE inPc' = "list_projects" /\ UNCHANGED inReply
    /\ UNCHANGED inDatasetIds
    /\ UNCHANGED <<snVars, svVars, acVars, initRest>>

\* commands.py:56-68
InitListProjects ==
    /\ inPc = "list_projects"
    /\ \/ \E exc \in {"BigQueryClientError", "ConnectionError"} :
            InitFailsAt("list_projects", exc)
       \/ InitReturns("no project", "")
       \/ inPc' = "project prompt" /\ UNCHANGED inReply
    /\ UNCHANGED <<inDatasetIds, inFound, inClients>>
    /\ UNCHANGED <<snVars, svVars, acVars, initRest>>

\* commands.py:70-93, up to an answer that ends the prompt
InitProjectPrompt ==
    /\ inPc = "project prompt"
    /\ \/ \E exc \in {"KeyboardInterrupt", "EOFError"} :
            InitFailsAt("project prompt", exc)
       \/ InitReturns("project prompt", "cancelled")
       \/ inPc' = "list_datasets" /\ UNCHANGED inReply
    /\ UNCHANGED <<inDatasetIds, inFound, inClients>>
    /\ UNCHANGED <<snVars, svVars, acVars, initRest>>

\* commands.py:95-99 and 112-113: BQClient(...) and client.list_datasets()
InitListDatasets ==
    /\ inPc = "list_datasets"
    /\ \/ /\ \E exc \in {"BigQueryClientError", "ConnectionError"} :
               InitFailsAt("list_datasets", exc)
          /\ UNCHANGED inDatasetIds
       \/ \E listing \in Listings(SnapDatasetIds) :
            /\ inDatasetIds' = listing
            /\ inPc' = IF listing # <<>> THEN "confirm prompt" ELSE "collect"
            /\ UNCHANGED inReply
    /\ inClients' = inClients + 1
    /\ UNCHANGED inFound
    /\ UNCHANGED <<snVars, svVars, acVars, initRest>>

\* commands.py:101-111
InitConfirmPrompt ==
    /\ inPc = "confirm prompt"
    /\ \/ \E exc \in {"KeyboardInterrupt", "EOFError"} :
            InitFailsAt("confirm prompt", exc)
       \/ InitReturns("confirm prompt", "cancelled")
       \/ inPc' = "collect" /\ UNCHANGED inReply
    /\ UNCHANGED <<inDatasetIds, inFound, inClients>>
    /\ UNCHANGED <<snVars, svVars, acVars, initRest>>

\* commands.py:115-123: the call of metadata_snapshot
InitCollect ==
    /\ inPc = "collect" /\ snPc = "idle"
    /\ snArg' = [given |-> TRUE, ids |-> inDatasetIds]
    /\ snSampleN' = DEFAULT_SAMPLE_N
    /\ snPc' = "client"
    /\ inPc' = "collecting"
    /\ UNCHANGED <<snWalk, snResult, snError, snCalls, snFailed>>
    /\ UNCHANGED <<inDatasetIds, inReply, inFound, inClients>>
    /\ UNCHANGED <<svVars, acVars, initRest>>

\* commands.py:124-125: metadata_snapshot is back, one way or the other
InitCollected ==
    /\ inPc = "collecting" /\ snPc \in {"returned", "raised"}
    /\ IF snPc = "raised"
       THEN InitFailsAt("metadata_snapshot", snError[2])
       ELSE inPc' = "save" /\ UNCHANGED inReply
    /\ UNCHANGED <<inDatasetIds, inFound, inClients>>
    /\ UNCHANGED <<snVars, svVars, acVars, initRest>>

\* commands.py:127-135
InitSave ==
    /\ inPc = "save"
    /\ \/ /\ InitFailsAt("save_metadata", "OSError")
          /\ UNCHANGED fsFiles
       \/ \E content \in Contents :
            /\ fsFiles' = SaveMetadata(fsFiles, content, fsNow)
            /\ InitReturns("save_metadata", "saved")
    /\ UNCHANGED <<inDatasetIds, inFound, inClients>>
    /\ UNCHANGED <<fsNow, svPc, svBackup, svContent, svBackupPath, svResult,
                   svPrior>>
    /\ UNCHANGED <<snVars, acVars, initRest>>

NextSnapshot ==
    \/ SnapDirectCall
    \/ SnapClient
    \/ SnapDatasets
    \/ SnapListTables
    \/ SnapSchema
    \/ SnapSample
    \/ SnapDatasetDone
    \/ SnapReturn
    \/ InitCall
    \/ InitListProjects
    \/ InitProjectPrompt
    \/ InitListDatasets
    \/ InitConfirmPrompt
    \/ InitCollect
    \/ InitCollected
    \/ InitSave

SpecSnapshot == SnapshotInit /\ [][NextSnapshot]_vars

Keys(mapping) == {mapping[k].id : k \in 1..Len(mapping)}
ValueAt(mapping, key) ==
    mapping[CHOOSE k \in 1..Len(mapping) : mapping[k].id = key].value

\* C15: once a list_tables, get_table_schema or sample_rows call has failed,
\* metadata_snapshot raises that failure and returns no snapshot; inside
\* /init the handler then never reaches save_metadata, and the metadata
\* store stays as the handler found it: no file written, no backup made.
C15_FailureAborts ==
    snFailed[1] \in {"list_tables", "get_table_schema", "sample_rows"} =>
      /\ snPc = "raised"
      /\ snError = snFailed
      /\ snResult = NoSnapshot
      /\ inPc # "idle" =>
           /\ inPc \in {"collecting", "returned", "raised"}
           /\ fsFiles = inFound
           /\ inPc # "collecting" => inReply = <<"metadata_snapshot",
                                                 snFailed[2]>>

\* /init over an existing metadata file: the second dataset's sample_rows
\* failed after the first dataset was collected, and the handler returned
C15_Witness ==
    /\ snFailed[1] = "sample_rows"
    /\ snSnapshot # <<>>
    /\ inPc = "returned"
    /\ inFound[MetadataPath] # NoFile

\* C16: list_datasets is called only when the datasets argument is omitted;
\* with a list supplied, of any length, the returned snapshot has exactly
\* the supplied identifiers as keys, each with an entry (schema and
\* sampleRows) for exactly the tables list_tables returned for it.
C16_SuppliedListIsUsed ==
    /\ snCalls.list_datasets > 0 => ~snArg.given
    /\ (snPc = "returned" /\ snArg.given) =>
         /\ Keys(snResult.datasets) = Range(snArg.ids)
         /\ \A d \in Keys(snResult.datasets) :
               /\ Keys(ValueAt(snResult.datasets, d))
                    = Range(ValueAt(snListed, d))
               /\ \A t \in Keys(ValueAt(snResult.datasets, d)) :
                     ValueAt(ValueAt(snResult.datasets, d), t).schema
                        = SchemaOf(d, t)

\* ------------------------------------------------- BQClient.sample_rows
SampleMaxResults == {-1, 0, 1, MaxPageRows}

\* variant: only a negative max_results short-circuits
SampleSkips_negativeOnly(max_results) == max_results < 0

\* client.py:230
SampleSkips(max_results) == max_results <= 0

\* bodies of tabledata.list: up to max_results rows, with or without a
\* schema, a page token, a row count
SampleResponses(max_results) ==
    Responses(1, {None}, {"absent"}, SchemaVals,
              0..Min(MaxPageRows, max_results), PageTokenVals,
              NextPageTokenVals, StatusTotalVals)

SampleInit ==
    /\ RunInit /\ FmtIdle /\ SampleRestIdle
    /\ smPc = "call"
    /\ smMax \in SampleMaxResults
    /\ smData = NoResponse /\ smResult = <<>> /\ smRequests = 0

\* client.py:230-231
SampleShortCircuit ==
    /\ smPc = "call"
    /\ SampleSkips(smMax)
    /\ smResult' = <<>>
    /\ smPc' = "returned"
    /\ UNCHANGED <<smMax, smData, smRequests>>
    /\ UNCHANGED sampleRest

\* client.py:232-237: the one request, answered
SampleRequest ==
    /\ smPc = "call"
    /\ ~SampleSkips(smMax)
    /\ \E resp \in SampleResponses(Max({smMax, 0})) :
         /\ smData' = resp
         /\ smResult' = FormatRows(resp.rows, resp.schema.fields)
    /\ smRequests' = smRequests + 1
    /\ smPc' = "returned"
    /\ UNCHANGED smMax
    /\ UNCHANGED sampleRest

\* client.py:234: the one request, failed
SampleRequestFails ==
    /\ smPc = "call"
    /\ ~SampleSkips(smMax)
    /\ smRequests' = smRequests + 1
    /\ smPc' = "raised"
    /\ UNCHANGED <<smMax, smData, smResult>>
    /\ UNCHANGED sampleRest

NextSample ==
    \/ SampleShortCircuit
    \/ SampleRequest
    \/ SampleRequestFails

SpecSample == SampleInit /\ [][NextSample]_vars

\* C17: with max_results <= 0 sample_rows returns an empty list and issues
\* no request; with max_results > 0 it has issued exactly one request when
\* it ends, whether or not the response carried a continuation token.
C17_OneRequestAtMost ==
    /\ smMax <= 0 =>
         /\ smRequests = 0
         /\ smPc # "raised"
         /\ smPc = "returned" => smResult = <<>>
    /\ (smMax > 0 /\ smPc \in {"returned", "raised"}) => smRequests = 1
    /\ smPc = "returned" =>
         smResult = FormatRows(smData.rows, smData.schema.fields)

\* a sample whose response carried rows and a continuation token
C17_Witness ==
    /\ smPc = "returned" /\ smMax > 0
    /\ smData.pageToken = "t1"
    /\ smResult # <<>>
    /\ smRequests = 1

\* ------------------------------ BQClient.list_datasets and list_tables
MaxPageEntries == 2   \* entries of one listing page
MaxEntriesTotal == 3  \* entries with an identifier the server lists in all
MaxListPages == 3     \* pages the server serves for one listing

NoId == 0             \* an entry without datasetId / tableId

\* the entries of a page: entry k carries the next unused identifier when
\* shape[k], none otherwise; identifiers are numbered in the order sent
PageEntries(shape, used) ==
    [k \in 1..Len(shape) |->
        IF shape[k]
        THEN used + Cardinality({i \in 1..k : shape[i]})
        ELSE NoId]
PageShapes(used) ==
    {shape \in SeqsUpTo(BOOLEAN, MaxPageEntries) :
        used + Cardinality({i \in 1..Len(shape) : shape[i]})
            <= MaxEntriesTotal}

\* client.py:194-198 and 210-214: the identifiers of a page
PageIds(entries) == SelectSeq(entries, LAMBDA id : id # NoId)

\* variant: the loop stops after the first page
PaginateDone_always(next_token) == TRUE

\* client.py:329
PaginateDone(next_token) == ~Truthy(next_token)

ListInit ==
    /\ RunInit /\ FmtIdle /\ ListRestIdle
    /\ pgPc = "call"
    /\ \/ pgKind = "datasets" /\ pgDataset = ""
       \/ pgKind = "tables" /\ pgDataset \in {"", "d1", "d2"}
    /\ pgToken = None /\ pgIds = <<>> /\ pgRequests = 0
    /\ pgReqToken = None /\ pgPrevToken = None /\ pgLastToken = None
    /\ pgWithToken = 0 /\ pgPresent = 0

\* client.py:204-205: list_tables wants a dataset_id
ListRejects ==
    /\ pgPc = "call"
    /\ pgKind = "tables" /\ ~Truthy(pgDataset)
    /\ pgPc' = "raised"
    /\ UNCHANGED <<pgKind, pgDataset, pgToken, pgIds, pgRequests, pgReqToken,
                   pgPrevToken, pgLastToken, pgWithToken, pgPresent>>
    /\ UNCHANGED listRest

\* client.py:190-193 / 206-209 and 320-321: _paginate starts
ListCall ==
    /\ pgPc = "call"
    /\ pgKind = "tables" => Truthy(pgDataset)
    /\ pgToken' = None
    /\ pgPc' = "page"
    /\ UNCHANGED <<pgKind, pgDataset, pgIds, pgRequests, pgReqToken,
                   pgPrevToken, pgLastToken, pgWithToken, pgPresent>>
    /\ UNCHANGED listRest

\* client.py:322-330 with 194-198 / 210-214: one turn of the loop, and the
\* return of line 199 / 215 when the loop breaks
ListPage ==
    /\ pgPc = "page"
    /\ \E shape \in PageShapes(pgPresent),
          p \in (IF pgRequests + 1 < MaxListPages THEN PageTokenVals
                 ELSE {None, ""}),
          q \in (IF pgRequests + 1 < MaxListPages THEN NextPageTokenVals
                 ELSE {None}) :
         LET page == [pageToken |-> p, nextPageToken |-> q,
                      entries |-> PageEntries(shape, pgPresent)]
         IN
         /\ pgReqToken' = (IF Truthy(pgToken) THEN pgToken ELSE None)
         /\ pgPrevToken' = pgLastToken
         /\ pgLastToken' = RespToken(page)
         /\ pgWithToken' = pgWithToken
                            + (IF Truthy(RespToken(page)) THEN 1 ELSE 0)
         /\ pgPresent' = pgPresent + Cardinality({i \in 1..Len(shape) :
                                                      shape[i]})
         /\ pgIds' = pgIds \o PageIds(page.entries)
         /\ pgToken' = NextPageToken(page)
         /\ pgPc' = IF PaginateDone(NextPageToken(page)) THEN "returned"
                    ELSE "page"
    /\ pgRequests' = pgRequests + 1
    /\ UNCHANGED <<pgKind, pgDataset>>
    /\ UNCHANGED listRest

\* client.py:326: a request fails
ListPageFails ==
    /\ pgPc = "page"
    /\ pgReqToken' = (IF Truthy(pgToken) THEN pgToken ELSE None)
    /\ pgPrevToken' = pgLastToken
    /\ pgRequests' = pgRequests + 1
    /\ pgPc' = "raised"
    /\ UNCHANGED <<pgKind, pgDataset, pgToken, pgIds, pgLastToken,
                   pgWithToken, pgPresent>>
    /\ UNCHANGED listRest

NextList ==
    \/ ListRejects
    \/ ListCall
    \/ ListPage
    \/ ListPageFails

SpecList == ListInit /\ [][NextList]_vars

\* C18: every request after the first carries the continuation token of
\* the response just before it; the call returns only after a response
\* without a token, having made one request more than the responses that
\* carried one, and returns the identifiers of all pages in the order sent;
\* a listing whose only page has no entry and no token returns the empty
\* list after one request.
C18_PagesFollowed ==
    /\ pgRequests = 1 => pgReqToken = None
    /\ pgRequests >= 2 => Truthy(pgPrevToken) /\ pgReqToken = pgPrevToken
    /\ pgPc = "page" /\ pgRequests > 0 => Truthy(pgLastToken)
    /\ pgPc = "returned" =>
         /\ ~Truthy(pgLastToken)
         /\ pgRequests = pgWithToken + 1
         /\ pgIds = IdsUpTo(pgPresent)
         /\ (pgPresent = 0 /\ pgWithToken = 0)
            => pgIds = <<>> /\ pgRequests = 1

\* a listing returned from three pages, its identifiers on different pages
C18_Witness ==
    /\ pgPc = "returned"
    /\ pgRequests = 3
    /\ pgIds = <<1, 2>>
    /\ pgPrevToken # pgReqToken \/ pgReqToken = "t2"

\* ---------------------------------------------------- LLMClient.generate
MaxAttempts == 3      \* largest max_attempts configured

DEFAULT_MAX_ATTEMPTS == 3
DEFAULT_INITIAL_DELAY == 1
DEFAULT_MAX_DELAY == 30
DEFAULT_BACKOFF_MULTIPLIER == 2
RETRYABLE_STATUS_CODES == {408, 409, 425, 429, 500, 502, 503, 504}

NoStatus == 0         \* the exception carries no status code
\* what one backend call can do: raise (an instance of a retry_on class, one
\* of the module's own setup errors, or anything else; with or without a
\* status code) or answer (with or without text)
BackendRaises ==
    {[kind |-> "raise", class |-> "retry_on", status |-> NoStatus, text |-> ""],
     [kind |-> "raise", class |-> "other", status |-> 503, text |-> ""],
     [kind |-> "raise", class |-> "other", status |-> 400, text |-> ""],
     [kind |-> "raise", class |-> "other", status |-> NoStatus, text |-> ""],
     [kind |-> "raise", class |-> "MissingDependencyError",
      status |-> NoStatus, text |-> ""]}
BackendAnswers ==
    {[kind |-> "answer", class |-> "", status |-> NoStatus, text |-> "ok"],
     [kind |-> "answer", class |-> "", status |-> NoStatus, text |-> ""]}
BackendOutcomes == BackendRaises \cup BackendAnswers

\* variant: any error is retried while attempts remain
ShouldRetry_anyError(exc, attempt, max_attempts) ==
    ~(attempt >= max_attempts - 1)

\* variant: nothing is retried
ShouldRetry_never(exc, attempt, max_attempts) == FALSE

\* variant: the last retry is given up
ShouldRetry_oneShort(exc, attempt, max_attempts) ==
    /\ ~(attempt >= max_attempts - 2)
    /\ exc.class # "MissingDependencyError"
    /\ \/ exc.class = "retry_on"
       \/ exc.status # NoStatus /\ exc.status \in RETRYABLE_STATUS_CODES

\* base.py:237-255 _should_retry
ShouldRetry(exc, attempt, max_attempts) ==
    /\ ~(attempt >= max_attempts - 1)
    /\ exc.class # "MissingDependencyError"
    /\ \/ exc.class = "retry_on"
       \/ exc.status # NoStatus /\ exc.status \in RETRYABLE_STATUS_CODES

LlmInit ==
    /\ RunInit /\ FmtIdle /\ LlmRestIdle
    /\ llmPc = "call"
    /\ llmPrompt \in {"", "hi"}
    /\ llmMax \in 0..MaxAttempts \cup {DEFAULT_MAX_ATTEMPTS}
    /\ llmScript \in [1..Max({MaxAttempts, DEFAULT_MAX_ATTEMPTS})
                        -> BackendOutcomes]
    /\ llmAttempt = 0 /\ llmDelay = 0 /\ llmSlept = 0 /\ llmCalls = 0
    /\ llmResult = None /\ llmError = None

LlmRaises(exc) ==
    /\ llmPc' = "raised"
    /\ llmError' = exc
    /\ UNCHANGED llmResult

\* base.py:141, 320-337: an empty prompt is refused
LlmRejects ==
    /\ llmPc = "call"
    /\ llmPrompt = ""
    /\ LlmRaises("ValueError")
    /\ UNCHANGED <<llmPrompt, llmMax, llmScript, llmAttempt, llmDelay,
                   llmSlept, llmCalls>>
    /\ UNCHANGED llmRest

\* base.py:141-145
LlmCall ==
    /\ llmPc = "call"
    /\ llmPrompt # ""
    /\ llmDelay' = DEFAULT_INITIAL_DELAY
    /\ llmAttempt' = 0
    /\ llmPc' = "attempt"
    /\ UNCHANGED <<llmPrompt, llmMax, llmScript, llmSlept, llmCalls,
                   llmResult, llmError>>
    /\ UNCHANGED llmRest

\* base.py:146-161: a backend call that raises
LlmBackendRaises ==
    /\ llmPc = "attempt"
    /\ llmAttempt < llmMax
    /\ llmScript[llmCalls + 1].kind = "raise"
    /\ llmCalls' = llmCalls + 1
    /\ IF ShouldRetry(llmScript[llmCalls + 1], llmAttempt, llmMax)
       THEN /\ llmSlept' = llmSlept + llmDelay
            /\ llmDelay' = Min(llmDelay * DEFAULT_BACKOFF_MULTIPLIER,
                               DEFAULT_MAX_DELAY)
            /\ llmAttempt' = llmAttempt + 1
            /\ UNCHANGED <<llmPc, llmResult, llmError>>
       ELSE /\ LlmRaises("LLMError: failed")
            /\ UNCHANGED <<llmSlept, llmDelay, llmAttempt>>
    /\ UNCHANGED <<llmPrompt, llmMax, llmScript>>
    /\ UNCHANGED llmRest

\* base.py:147-151 and 163-166: a backend call that answers
LlmBackendAnswers ==
    /\ llmPc = "attempt"
    /\ llmAttempt < llmMax
    /\ llmScript[llmCalls + 1].kind = "answer"
    /\ llmCalls' = llmCalls + 1
    /\ IF llmScript[llmCalls + 1].text = ""
       THEN LlmRaises("LLMError: no text")
       ELSE /\ llmResult' = llmScript[llmCalls + 1].text
            /\ llmPc' = "returned"
            /\ UNCHANGED llmError
    /\ UNCHANGED <<llmPrompt, llmMax, llmScript, llmAttempt, llmDelay,
                   llmSlept>>
    /\ UNCHANGED llmRest

\* base.py:168: the loop ran out
LlmExhausted ==
    /\ llmPc = "attempt"
    /\ llmAttempt >= llmMax
    /\ LlmRaises("LLMError: exhausted")
    /\ UNCHANGED <<llmPrompt, llmMax, llmScript, llmAttempt, llmDelay,
                   llmSlept, llmCalls>>
    /\ UNCHANGED llmRest

NextLlm ==
    \/ LlmRejects
    \/ LlmCall
    \/ LlmBackendRaises
    \/ LlmBackendAnswers
    \/ LlmExhausted

SpecLlm == LlmInit /\ [][NextLlm]_vars

\* an error the retry policy calls transient: an instance of a retry_on
\* class, or one with a status code of the retryable set
Retryable(outcome) ==
    /\ outcome.kind = "raise"
    /\ \/ outcome.class = "retry_on"
       \/ outcome.status \in {408, 409, 425, 429, 500, 502, 503, 504}
\* the backend raises retryable errors on its first n calls and answers
\* with text on the next
RetriesThenAnswers(n) ==
    /\ \A k \in 1..n : Retryable(llmScript[k])
    /\ llmScript[n + 1].kind = "answer"
    /\ llmScript[n + 1].text # ""

\* C20: when the backend raises retryable errors on its first n calls,
\* n < max_attempts, and then answers, generate makes no more than n+1
\* backend calls and ends by returning the text of that answer after
\* exactly n+1 calls.
C20_RetriesThenReturns ==
    \A n \in 0..(llmMax - 1) :
        (llmPrompt # "" /\ RetriesThenAnswers(n)) =>
            /\ llmCalls <= n + 1
            /\ llmPc \in {"returned", "raised"} =>
                 /\ llmPc = "returned"
                 /\ llmResult = llmScript[n + 1].text
                 /\ llmCalls = n + 1

\* a call that returned after two retries, one for the class of the error
\* and one for its status code
C20_Witness ==
    /\ llmPc = "returned"
    /\ llmCalls = 3
    /\ llmScript[1].class = "retry_on"
    /\ llmScript[2].status = 503
    /\ llmResult = "ok"

\* an error the retry policy does not call transient: not an instance of a
\* retry_on class and without a status code of the retryable set
NonRetryable(outcome) ==
    /\ outcome.kind = "raise"
    /\ outcome.class # "retry_on"
    /\ outcome.status \notin {408, 409, 425, 429, 500, 502, 503, 504}

\* C21: when a backend call fails with an error that is neither an instance
\* of retry_on nor carries a retryable status code, generate raises LLMError
\* at once: that call is the last backend call, whatever number of
\* attempts remains.
C21_NonRetryableRaisesAtOnce ==
    \A k \in 1..llmCalls :
        NonRetryable(llmScript[k]) =>
            /\ llmPc = "raised"
            /\ llmError = "LLMError: failed"
            /\ llmCalls = k

\* a first call that failed with status 400 while two attempts remained
C21_Witness ==
    /\ llmMax = 3
    /\ llmCalls = 1
    /\ llmScript[1].class = "other" /\ llmScript[1].status = 400
    /\ llmPc = "raised"

\* the steps of _init that come before the call of metadata_snapshot, and
\* those of them at or before the project prompt
BeforeCollection ==
    {"no account", "list_projects", "no project", "project prompt",
     "list_datasets", "confirm prompt"}
UpToProjectPrompt ==
    {"no account", "list_projects", "no project", "project prompt"}
\* how _init ends early in the cases the handler provides for: no account
\* with a refresh token, a project listing that fails with the client's
\* error or is empty, an empty line at the project prompt, 'q' at the
\* confirmation
EarlyStops ==
    {<<"no account", "">>, <<"list_projects", "BigQueryClientError">>,
     <<"no project", "">>, <<"project prompt", "cancelled">>,
     <<"confirm prompt", "cancelled">>}
InitEnded == inPc \in {"returned", "raised"}

\* C22: when /init ends before the collection step, metadata_snapshot has
\* not been called (no client call of the walk was made) and the metadata
\* store is as the handler found it, no file written and no backup made;
\* when it ends at or before the project prompt it has constructed no
\* BQClient; and in each of the early stops the handler provides for (no
\* account, project listing failed or empty, empty line at the project
\* prompt, 'q' at the confirmation) it ends by returning a message.
C22_EarlyStopLeavesNoTrace ==
    (InitEnded /\ inReply[1] \in BeforeCollection) =>
        /\ snPc = "idle" /\ snCalls = NoCalls /\ snFailed = NoFailure
        /\ fsFiles = inFound
        /\ inReply[1] \in UpToProjectPrompt => inClients = 0
        /\ inReply \in EarlyStops => inPc = "returned"

\* /init over an existing metadata file, cancelled with 'q' after the
\* datasets were listed
C22_Witness ==
    /\ inPc = "returned"
    /\ inReply = <<"confirm prompt", "cancelled">>
    /\ inClients = 1
    /\ inFound[MetadataPath] # NoFile
    /\ fsFiles = inFound

\* -------------------------------------------------------- _request_json
\* status codes a response can carry, of every class
HttpStatuses == {200, 201, 204, 300, 304, 399, 400, 401, 404, 500, 503}
\* the bytes of a response: none, a JSON document, something else
HttpContents == {"", "json", "text"}
HttpResponses == [status_code : HttpStatuses, content : HttpContents]

\* response.json(): the parsed document, or ValueError
IsJson(content) == content = "json"
ParsedJson(content) == <<"parsed", content>>
\* response.text
RawText(content) == <<"raw", content>>

\* client.py:54
IsHttpError(status_code) == status_code >= 400

\* client.py:55-58
ErrorPayload(response) ==
    IF IsJson(response.content) THEN ParsedJson(response.content)
    ELSE RawText(response.content)

RequestInit ==
    /\ RunInit /\ FmtIdle /\ RequestRestIdle
    /\ rqPc = "call"
    /\ rqMethod \in {"GET", "POST"}
    /\ rqResponse \in HttpResponses
    /\ rqResult = NoReturn /\ rqError = NoRaise

\* client.py:53-67: session.request returned a response
RequestAnswered ==
    /\ rqPc = "call"
    /\ IF IsHttpError(rqResponse.status_code)
       THEN /\ rqPc' = "raised"
            /\ rqError' = [class |-> "BigQueryClientError",
                           status_code |-> rqResponse.status_code,
                           payload |-> ErrorPayload(rqResponse)]
            /\ UNCHANGED rqResult
       ELSE IF rqResponse.content = ""
       THEN /\ rqPc' = "returned"
            /\ rqResult' = [returned |-> TRUE, value |-> <<>>]
            /\ UNCHANGED rqError
       ELSE IF IsJson(rqResponse.content)
       THEN /\ rqPc' = "returned"
            /\ rqResult' = [returned |-> TRUE,
                            value |-> ParsedJson(rqResponse.content)]
            /\ UNCHANGED rqError
       ELSE /\ rqPc' = "raised"
            /\ rqError' = [class |-> "BigQueryClientError",
                           status_code |-> NoStatusCode,
                           payload |-> <<>>]
            /\ UNCHANGED rqResult
    /\ UNCHANGED <<rqMethod, rqResponse>>
    /\ UNCHANGED requestRest

\* client.py:53: session.request raised; nothing here catches it
RequestUnanswered ==
    /\ rqPc = "call"
    /\ rqPc' = "raised"
    /\ rqError' = [class |-> "ConnectionError",
                   status_code |-> NoStatusCode, payload |-> <<>>]
    /\ UNCHANGED <<rqMethod, rqResponse, rqResult>>
    /\ UNCHANGED requestRest

NextRequest ==
    \/ RequestAnswered
    \/ RequestUnanswered

SpecRequest == RequestInit /\ [][NextRequest]_vars

\* the call ended on a response of the server
Answered ==
    /\ rqPc \in {"returned", "raised"}
    /\ rqError.class # "ConnectionError"

\* C23: every response with a status outside 200..299 ends the call in the
\* client's error carrying the status code of the response and its payload,
\* the parsed JSON or else the raw text; such a response is never returned
\* as data.
C23_NonSuccessIsError ==
    (Answered /\ rqResponse.status_code \notin 200..299) =>
        /\ rqPc = "raised"
        /\ rqResult = NoReturn
        /\ rqError.class = "BigQueryClientError"
        /\ rqError.status_code = rqResponse.status_code
        /\ rqError.payload = ErrorPayload(rqResponse)

\* ------------------------------------------- _create_authorized_session
MaxProjectPages == 2  \* pages of one project listing

\* the accounts table: up to two rows, with or without a refresh token
\* (the column is nullable), created in the same second or not
SessionAccounts ==
    {<<>>}
    \cup {<<[id |-> 1, email |-> "a@example.com", refresh_token |-> t1,
             created_at |-> 1]>> : t1 \in {None, "", "r1"}}
    \cup {<<[id |-> 2, email |-> "b@example.com", refresh_token |-> t2,
             created_at |-> c2],
            [id |-> 1, email |-> "a@example.com", refresh_token |-> t1,
             created_at |-> 1]>> :
           t1 \in {None, "", "r1"}, t2 \in {None, "r2"}, c2 \in {1, 2}}

\* client.py:86-113 _load_client_info
LoadClientInfoFails(secrets) == secrets \in {"missing", "incomplete"}

\* client.py:70-83 _resolve_account: the row returned, or the failure
ResolveAccount(account_id, accounts) ==
    IF account_id # NoAccountId
    THEN IF \E k \in 1..Len(accounts) : accounts[k].id = account_id
         THEN {[found |-> TRUE, failure |-> "",
                row |-> accounts[CHOOSE k \in 1..Len(accounts) :
                                   accounts[k].id = account_id]]}
         ELSE {[found |-> FALSE, failure |-> "account_id not found",
                row |-> NoAccount]}
    ELSE IF ActiveAccountIds(accounts) = {}
         THEN {[found |-> FALSE, failure |-> "no account available",
                row |-> NoAccount]}
         ELSE {[found |-> TRUE, failure |-> "",
                row |-> accounts[CHOOSE k \in 1..Len(accounts) :
                                   accounts[k].id = id]] :
               id \in ActiveAccountIds(accounts)}

\* variant: an account without a refresh token is let through
MissingToken_never(refresh_token) == FALSE

\* client.py:143-145
MissingToken(refresh_token) == ~Truthy(refresh_token)

SessionInit ==
    /\ RunInit /\ FmtIdle /\ SessionRestIdle
    /\ acRows \in SessionAccounts /\ acLogins = 0 /\ acLast = NoLogin
    /\ auPc = "call"
    /\ \/ auCaller = "BQClient" /\ auProjectId \in {"", "p1"}
       \/ auCaller = "list_projects" /\ auProjectId = ""
    /\ auAccountId \in {NoAccountId, 1, 2, 3}
    /\ auSecrets \in {"ok", "missing", "incomplete"}
    /\ auAccount = NoAccount /\ auError = NoFailure
    /\ auRefreshes = 0 /\ auRequests = 0

SessionRaises(class, failure) ==
    /\ auPc' = "raised"
    /\ auError' = <<class, failure>>

\* client.py:170-171
SessionRejectsProject ==
    /\ auPc = "call"
    /\ auCaller = "BQClient" /\ auProjectId = ""
    /\ SessionRaises("ValueError", "project_id")
    /\ UNCHANGED <<auCaller, auProjectId, auAccountId, auSecrets, auAccount,
                   auRefreshes, auRequests>>
    /\ UNCHANGED <<acVars, sessionRest>>

\* client.py:137-150 _create_authorized_session, as called at line 178 or
\* at line 430
SessionOpen ==
    /\ auPc = "call"
    /\ auCaller = "BQClient" => auProjectId # ""
    /\ IF LoadClientInfoFails(auSecrets)
       THEN /\ SessionRaises("BigQueryClientError", "client secrets")
            /\ UNCHANGED <<auAccount, auRefreshes>>
       ELSE \E resolved \in ResolveAccount(auAccountId, acRows) :
            IF ~resolved.found
            THEN /\ SessionRaises("BigQueryClientError", resolved.failure)
                 /\ UNCHANGED <<auAccount, auRefreshes>>
            ELSE IF MissingToken(resolved.row.refresh_token)
            THEN /\ SessionRaises("BigQueryClientError", "no refresh_token")
                 /\ UNCHANGED <<auAccount, auRefreshes>>
            ELSE /\ auRefreshes' = auRefreshes + 1
                 /\ \/ /\ SessionRaises("BigQueryClientError",
                                         "token refresh")
                       /\ UNCHANGED auAccount
                    \/ /\ auAccount' = resolved.row
                       /\ auPc' = IF auCaller = "BQClient"
                                  THEN "constructed" ELSE "listing"
                       /\ UNCHANGED auError
    /\ UNCHANGED <<auCaller, auProjectId, auAccountId, auSecrets,
                   auRequests>>
    /\ UNCHANGED <<acVars, sessionRest>>

\* client.py:437-444: one request of the project listing
SessionListProjects ==
    /\ auPc = "listing"
    /\ auRequests' = auRequests + 1
    /\ \/ /\ auRequests + 1 < MaxProjectPages
          /\ UNCHANGED <<auPc, auError>>
       \/ auPc' = "returned" /\ UNCHANGED auError
       \/ \E class \in {"BigQueryClientError", "ConnectionError"} :
            SessionRaises(class, "request")
    /\ UNCHANGED <<auCaller, auProjectId, auAccountId, auSecrets, auAccount,
                   auRefreshes>>
    /\ UNCHANGED <<acVars, sessionRest>>

NextSession ==
    \/ SessionRejectsProject
    \/ SessionOpen
    \/ SessionListProjects

SpecSession == SessionInit /\ [][NextSession]_vars

\* no usable refresh token for the requested or the default account
NoUsableToken ==
    IF auAccountId = NoAccountId
    THEN \A k \in 1..Len(acRows) : acRows[k].refresh_token \in {None, ""}
    ELSE \A k \in 1..Len(acRows) :
            acRows[k].id = auAccountId
            => acRows[k].refresh_token \in {None, ""}
\* the failures the client raises for a missing credential
CredentialFailures ==
    {<<"BigQueryClientError", "account_id not found">>,
     <<"BigQueryClientError", "no account available">>,
     <<"BigQueryClientError", "no refresh_token">>}

\* C24: when no account_id is given and no stored account has a non-empty
\* refresh token, or the requested account_id does not exist or its account
\* has no refresh token, BQClient(...) and list_projects never get past the
\* session setup: no warehouse request is issued and no token refresh is
\* asked for, no client is constructed and no listing returned, and the
\* call ends in the client's missing-credential error (given a project id
\* and a usable client secrets file, whose own errors come first).
C24_MissingCredential ==
    NoUsableToken =>
        /\ auPc \in {"call", "raised"}
        /\ auRequests = 0 /\ auRefreshes = 0
        /\ auPc = "raised" =>
             /\ auError[1] \in {"BigQueryClientError", "ValueError"}
             /\ (auSecrets = "ok" /\ auError[1] # "ValueError")
                  => auError \in CredentialFailures

\* BQClient asked for an account that exists but has no refresh token,
\* while another account has one
C24_Witness ==
    /\ auCaller = "BQClient" /\ auPc = "raised"
    /\ auAccountId = 1
    /\ Len(acRows) = 2
    /\ acRows[1].refresh_token = "r2"
    /\ acRows[2].refresh_token = ""
    /\ auError = <<"BigQueryClientError", "no refresh_token">>

\* the rows start_session has added to the sessions table
SessionsCreated == SubSeq(chSessions, Len(chFound) + 1, Len(chSessions))

\* C25: one invocation of start_session adds exactly one session row, and
\* none before an account with a refresh token is at hand (selected, or
\* saved by the setup wizard; a wizard that fails adds none); the rows found
\* are left alone; every message stored belongs to the new session; and the
\* account of that session stays the one it was created for, and still has
\* a refresh token, whatever /login saves later.
C25_OneSessionPerInvocation ==
    /\ SubSeq(chSessions, 1, Len(chFound)) = chFound
    /\ chPc \in {"read", "ended"} => chSessionId # 0
    /\ IF chSessionId = 0
       THEN SessionsCreated = <<>> /\ chMessages = <<>>
       ELSE /\ SessionsCreated =
                 <<[id |-> chSessionId, account_id |-> chSession]>>
            /\ \A k \in 1..Len(chFound) : chFound[k].id # chSessionId
            /\ \E k \in 1..Len(acRows) :
                  /\ acRows[k].id = chSession
                  /\ Truthy(acRows[k].refresh_token)
            /\ \A m \in 1..Len(chMessages) :
                  chMessages[m].session_id = chSessionId

\* next to a session of an earlier invocation, a session was started for
\* the first account; /login then saved a second account, and the line
\* typed after it was stored under the session of the first
C25_Witness ==
    /\ chFound # <<>>
    /\ chSessionId = 2 /\ chSession = 1
    /\ acLast.outcome = "saved" /\ acLast.id = 2
    /\ chLast.outcome = "persisted"
    /\ Len(chMessages) = 2

\* C26: generate never makes more than max_attempts backend calls; when
\* each of the max_attempts calls fails with a retryable error, it ends by
\* raising LLMError after exactly max_attempts calls; and it returns only
\* what its last backend call answered.
C26_AttemptsBounded ==
    /\ llmCalls <= llmMax
    /\ (/\ llmPrompt # ""
        /\ llmPc \in {"returned", "raised"}
        /\ \A k \in 1..llmMax : Retryable(llmScript[k])) =>
            /\ llmPc = "raised"
            /\ llmError \in {"LLMError: failed", "LLMError: exhausted"}
            /\ llmCalls = llmMax
    /\ llmPc = "returned" =>
            /\ llmCalls >= 1
            /\ llmScript[llmCalls].kind = "answer"
            /\ llmResult = llmScript[llmCalls].text

\* three attempts, each failed with a retryable error, of both kinds
C26_Witness ==
    /\ llmMax = 3 /\ llmCalls = 3
    /\ llmPc = "raised"
    /\ llmScript[1].status = 503
    /\ llmScript[2].class = "retry_on"
    /\ llmScript[3].class = "retry_on"
    /\ llmSlept = 3

\* C27: when the latest login of the session succeeded, the account a
\* following /init selects (the first of list_accounts with a refresh
\* token) is the account that login saved the refresh token of.
C27_InitUsesLoggedInAccount ==
    (chLast.handler = "init" /\ acLast.outcome = "saved") =>
        chLast.account = acLast.id

\* C28: no step of save_metadata changes a backup file that is already
\* there: what an earlier save backed up stays stored as it was, also when
\* the next save comes within the same clock second.
C28_BackupsKept ==
    [][\A p \in BackupPaths :
          fsFiles[p] # NoFile => fsFiles'[p] = fsFiles[p]]_vars

\* ---------------------------------------------------------------------
\* C29: run_sql with dry_run false returns a result only when the
\* submission response or a poll response of the job carried
\* jobComplete = true; a response that leaves the member out is not taken
\* as completion.
\* run_sql reads the member with data.get("jobComplete", True) (lines 272
\* and 282) and so does _poll_for_completion (line 343): a body without
\* the member counts as complete.
C29_ExplicitCompletion ==
    (pc = "done" /\ ~dry_run) => sawComplete

\* ---------------------------------------------------------------------
\* the rows of the messages table that belong to the running session, in
\* insertion order
SessionMessages ==
    SelectSeq(chMessages, LAMBDA m : m.session_id = chSessionId)

\* C30: every time the chat loop waits for input, the messages stored
\* for the session come in pairs: their count is even, each pair is a
\* user message followed by an assistant message, and the assistant
\* message reads "Echo: " followed by the content of the user message
\* before it.
C30_MessagePairs ==
    chPc = "read" =>
        /\ Len(SessionMessages) % 2 = 0
        /\ \A k \in 1..Len(SessionMessages) :
              IF k % 2 = 1
              THEN SessionMessages[k].role = "user"
              ELSE /\ SessionMessages[k].role = "assistant"
                   /\ SessionMessages[k].content =
                        <<"E", "c", "h", "o", ":", " ">>
                            \o SessionMessages[k - 1].content

\* the loop waits for input after two lines of different content were
\* stored and echoed in a session that is not the first of the database
C30_Witness ==
    /\ chPc = "read"
    /\ chSessionId = 2
    /\ Len(SessionMessages) = 4
    /\ SessionMessages[1].content # SessionMessages[3].content

====
